---- MODULE Spec2Model ----
(***************************************************************************)
(* Model of the Schellenberg USB integration: the session layer            *)
(* (custom_components/schellenberg_usb/api.py) and the position estimator  *)
(* of a cover (custom_components/schellenberg_usb/cover.py).               *)
(*                                                                         *)
(* Text is modelled as a sequence of one-character strings, so that the    *)
(* slicing, prefix and length rules of the code are computed, not assumed. *)
(* asyncio is modelled at its suspension points: a coroutine runs          *)
(* atomically from one await that really suspends to the next one.         *)
(***************************************************************************)
EXTENDS Integers, Sequences, FiniteSets, TLC

\* ------------------------------------------------------------------ bounds

\* number of caller tasks that may run API coroutines concurrently
NumTasks == 2
\* pool of serial transports that may exist (open or not yet collected)
MaxTransports == 2
\* pool of busy-retry tasks alive at once
MaxRetryTasks == 3
\* pool of deferred stop-pairing tasks alive at once
MaxStopTasks == 2
\* number of external stimuli (calls, lines, timeouts, I/O outcomes) in a run
MaxOps == 5
MaxStream == 5
MaxChunk == 3
\* number of external stimuli (service calls, events, signals) on the entities
MaxCoverOps == 4
\* the monotonic clock runs from 0 to MaxTime, in units of one recompute tick
MaxTime == 3

\* ------------------------------------------------------------- constants

\* Python's None for object references (futures, tasks, transports, numbers)
None == 0
\* const.py
PAIRING_DEVICE_ENUM_START == 16

CMD_STOP == <<"0", "0">>
CMD_UP == <<"0", "1">>
CMD_DOWN == <<"0", "2">>
CMD_PAIR == <<"6", "0">>
CMD_VERIFY == <<"!", "?">>
CMD_GET_DEVICE_ID == <<"s", "r">>
CMD_GET_PARAM_P == <<"s", "p">>
CMD_TRANSMIT == <<"s", "s">>
CMD_LED_ON == <<"s", "o", "+">>
EVENT_STARTED_MOVING_UP == <<"0", "1">>
EVENT_STARTED_MOVING_DOWN == <<"0", "2">>
EVENT_STOPPED == <<"0", "0">>
\* the lowercase command connect() sends to enter listening mode
CMD_HELLO == <<"h", "e", "l", "l", "o">>

\* --------------------------------------------------------- text helpers

Min(a, b) == IF a < b THEN a ELSE b
Max(a, b) == IF a > b THEN a ELSE b

\* Python s[a:b] for 0 <= a <= b (indices past the end are clipped)
Slice(s, a, b) == SubSeq(s, a + 1, Min(b, Len(s)))

\* Python s[a:]
SliceFrom(s, a) == SubSeq(s, a + 1, Len(s))

\* Python s.startswith(p)
StartsWith(s, p) == Len(s) >= Len(p) /\ SubSeq(s, 1, Len(p)) = p

\* Python str.split(): the maximal runs of non-blank characters, in order
RECURSIVE SplitFrom(_, _, _)
SplitFrom(s, i, cur) ==
    IF i > Len(s)
    THEN IF cur = <<>> THEN <<>> ELSE <<cur>>
    ELSE IF s[i] = " "
         THEN (IF cur = <<>> THEN <<>> ELSE <<cur>>) \o SplitFrom(s, i + 1, <<>>)
         ELSE SplitFrom(s, i + 1, Append(cur, s[i]))

Split(s) == SplitFrom(s, 1, <<>>)

HexDigits == <<"0", "1", "2", "3", "4", "5", "6", "7", "8", "9",
               "A", "B", "C", "D", "E", "F">>

LowerHexDigits == <<"0", "1", "2", "3", "4", "5", "6", "7", "8", "9",
                    "a", "b", "c", "d", "e", "f">>

\* value of one hexadecimal digit, -1 when the character is none
HexDigitValue(ch) ==
    IF \E i \in 1..16 : HexDigits[i] = ch
    THEN (CHOOSE i \in 1..16 : HexDigits[i] = ch) - 1
    ELSE IF \E i \in 1..16 : LowerHexDigits[i] = ch
         THEN (CHOOSE i \in 1..16 : LowerHexDigits[i] = ch) - 1
         ELSE -1

\* Python int(s, 16) on a string of hex digits; -1 stands for ValueError
RECURSIVE ParseHexFrom(_, _, _)
ParseHexFrom(s, i, acc) ==
    IF i > Len(s) THEN acc
    ELSE IF HexDigitValue(s[i]) < 0 THEN -1
         ELSE ParseHexFrom(s, i + 1, acc * 16 + HexDigitValue(s[i]))

ParseHex(s) == IF s = <<>> THEN -1 ELSE ParseHexFrom(s, 1, 0)

\* Python f"{n:02X}" for 0 <= n <= 255
FormatHex2(n) == <<HexDigits[(n \div 16) + 1], HexDigits[(n % 16) + 1]>>

\* ----------------------------------------------------- incoming lines

LINE_RFTU_B1 == <<"R", "F", "T", "U", "_", "V", " ", "B", ":", "1">>
LINE_ACK == <<"t", "1">>
LINE_BUSY == <<"t", "E">>
LINE_SR == <<"s", "r", "5", "D", "3", "E", "7", "C">>
LINE_SL == <<"s", "l", "0", "0", "B", "E", "D", "E", "V", "7", "8", "9">>
LINE_SS_A_UP == <<"s", "s", "1", "0", "A", "B", "C", "1", "2", "3",
                  "Z", "Z", "Z", "Z", "0", "1", "P", "P">>
LINE_SS_D_STOP == <<"s", "s", "1", "1", "D", "E", "F", "4", "5", "6",
                    "Z", "Z", "Z", "Z", "0", "0", "P", "P">>
LINE_SS_SHORT == <<"s", "s", "1", "0", "A", "B">>
LINE_JUNK == <<"x", "y">>

DEV_A == <<"A", "B", "C", "1", "2", "3">>
DEV_D == <<"D", "E", "F", "4", "5", "6">>

\* the lines the stick sends in this model
Lines == {LINE_RFTU_B1, LINE_ACK, LINE_BUSY, LINE_SR, LINE_SL,
          LINE_SS_A_UP, LINE_SS_D_STOP, LINE_SS_SHORT, LINE_JUNK}

\* --------------------------------------------------------------- state

Tasks == 1..NumTasks
TransportIds == 1..MaxTransports
RetryIds == 1..MaxRetryTasks
StopIds == 1..MaxStopTasks

VARIABLES
    transport,              \* self._transport: None or a transport
    transports,             \* every transport: "unused", "open", "closing", "closed"
    is_connecting,          \* self._is_connecting
    is_connected,           \* self._is_connected
    device_version,         \* self._device_version (<<>> is None)
    device_mode,            \* self._device_mode ("None" is None)
    hub_id,                 \* self._hub_id (<<>> is None)
    verify_future,          \* self._verify_future: None or the task that owns it
    device_id_future,       \* self._device_id_future
    pairing_future,         \* self._pairing_future
    task,                   \* the caller tasks: where each is suspended, its future
    pending_retry_command,  \* self._pending_retry_command (<<>> is None)
    retry_task,             \* self._retry_task: None or a retry task
    retry_tasks,            \* every retry task: "unused", "created", "sleeping", "cancelled"
    retry_for,              \* ghost: the command on record when each retry task was scheduled
    stop_pairing_task,      \* self._stop_pairing_task
    stop_tasks,             \* every stop-pairing task: "unused", "pending"
    registered_devices,     \* self._registered_devices: device id -> enum
    reconnect_timers,       \* pending loop.call_later(5, connect) handles
    last,                   \* the operation that ran last and what it did
    ops                     \* external stimuli so far

IdleTask == [pc |-> "idle", fut |-> "none", res |-> <<>>, enum |-> <<>>]

\* a task suspended in wait_for on a fresh future
Waiting(pc, enum) == [pc |-> pc, fut |-> "pending", res |-> <<>>, enum |-> enum]

\* what an operation did: its return value, what it wrote, what it fulfilled
Did(op, t, ret, id, enum, wrote, fulfilled, events, notified) ==
    [op |-> op, task |-> t, ret |-> ret, id |-> id, enum |-> enum, wrote |-> wrote,
     fulfilled |-> fulfilled, events |-> events, notified |-> notified]

\* `future and not future.done()` for the future a slot refers to
Pending(slot) == slot # None /\ task[slot].fut = "pending"

\* `self._transport is None or self._transport.is_closing()` negated
CanWrite(tr, trs) == tr # None /\ trs[tr] = "open"

\* send_command: what reaches the wire, and the retry record afterwards
Written(cmd, tr, trs) == IF CanWrite(tr, trs) THEN <<cmd>> ELSE <<>>

\* send_command recording the command before it tests the transport
RetryRecordAlways(cmd, tr, trs) == cmd

RetryRecord(cmd, tr, trs) == IF CanWrite(tr, trs) THEN cmd ELSE pending_retry_command

\* a close() that leaves the port open
LeftOpen(trs, tr) == trs

\* transport.close(): connection_lost is delivered later
Closed(trs, tr) ==
    IF tr # None /\ trs[tr] = "open" THEN [trs EXCEPT ![tr] = "closing"] ELSE trs

\* a transport nothing refers to any more and whose callback has run is gone
Collect(trs, kept) ==
    [x \in TransportIds |-> IF x # kept /\ trs[x] = "closed" THEN "unused" ELSE trs[x]]

\* initialize_next_device_enum() wrapping to 0x00 instead of 0x10
NextDeviceEnumWrapsToZero(reg) ==
    IF DOMAIN reg = {}
    THEN FormatHex2(PAIRING_DEVICE_ENUM_START)
    ELSE LET values == {ParseHex(reg[d]) : d \in DOMAIN reg}
             valid == {v \in values : v >= 0} \cup {PAIRING_DEVICE_ENUM_START - 1}
             max_enum == CHOOSE v \in valid : \A w \in valid : w <= v
             next_enum == max_enum + 1
         IN FormatHex2(IF next_enum > 255 THEN 0 ELSE next_enum)

\* initialize_next_device_enum(), on a registry given as a function
NextDeviceEnum(reg) ==
    IF DOMAIN reg = {}
    THEN FormatHex2(PAIRING_DEVICE_ENUM_START)
    ELSE LET values == {ParseHex(reg[d]) : d \in DOMAIN reg}
             valid == {v \in values : v >= 0} \cup {PAIRING_DEVICE_ENUM_START - 1}
             max_enum == CHOOSE v \in valid : \A w \in valid : w <= v
             next_enum == max_enum + 1
         IN FormatHex2(IF next_enum > 255 THEN PAIRING_DEVICE_ENUM_START ELSE next_enum)

\* the pair command addressed to an enumerator computed when it is sent
PairCommandFresh(device_enum) ==
    CMD_TRANSMIT \o NextDeviceEnum(registered_devices) \o CMD_PAIR
        \o <<"0", "0", "0", "0", "0">>

\* f"{CMD_TRANSMIT}{device_enum}{CMD_PAIR}00000"
PairCommand(device_enum) ==
    CMD_TRANSMIT \o device_enum \o CMD_PAIR \o <<"0", "0", "0", "0", "0">>

\* f"{CMD_TRANSMIT}{device_enum}9{action}0000"
BlindCommand(device_enum, action) ==
    CMD_TRANSMIT \o device_enum \o <<"9">> \o action \o <<"0", "0", "0", "0">>

\* --------------------------------------------------------------- covers

\* Python's None where the value is a number (a position, a timestamp)
NoNumber == -1
\* pool of position-recompute tasks of one cover alive at once
MaxPosTasks == 3

PosTaskIds == 1..MaxPosTasks
CoverIds == {DEV_A, DEV_D}
\* calibrated (open, close) travel times a calibration may report, in clock units
Calibrations == {<<3, 4>>, <<4, 4>>}
\* positions found in a restored state (attribute current_position)
RawPositions == {-5, 40, 250}
\* positions asked for by set_cover_position (the service schema gives 0..100)
Targets == {0, 30, 100}

VARIABLES
    cover,      \* device id -> the SchellenbergCover entity for it
    now,        \* time.monotonic()
    protocol    \* the SchellenbergProtocol: its buffer, what it received and delivered

vars == <<transport, transports, is_connecting, is_connected, device_version,
          device_mode, hub_id, verify_future, device_id_future, pairing_future,
          task, pending_retry_command, retry_task, retry_tasks, retry_for,
          stop_pairing_task, stop_tasks, registered_devices, reconnect_timers,
          last, ops, cover, now, protocol>>

\* SchellenbergProtocol.__init__ (received and delivered are ghosts)
NewProtocol == [buffer |-> <<>>, received |-> <<>>, delivered |-> <<>>]

\* SchellenbergCover.__init__
NewCover(exists, device_enum, open_time, close_time) ==
    [exists |-> exists, added |-> FALSE, removed |-> FALSE,
     device_enum |-> device_enum,
     position |-> NoNumber, is_opening |-> FALSE, is_closing |-> FALSE,
     travel_time_open |-> open_time, travel_time_close |-> close_time,
     move_start_time |-> NoNumber, move_start_position |-> NoNumber,
     position_update_task |-> None, target_position |-> NoNumber,
     tasks |-> [k \in PosTaskIds |-> "unused"],
     stops |-> 0]

\* Python int() of a quotient n / d with d > 0: truncation toward zero
TruncDiv(n, d) == IF n >= 0 THEN n \div d ELSE -((-n) \div d)

\* the clamp left out
NoClamp(x) == x

\* max(0, min(100, x))
Clamp(x) == Max(0, Min(100, x))

\* _update_position with the open travel time used in both directions
UpdatePositionOpenTime(cv, t) ==
    IF cv.move_start_time = NoNumber \/ cv.move_start_position = NoNumber
    THEN cv
    ELSE LET elapsed == t - cv.move_start_time
             travel == cv.travel_time_open
             up == TruncDiv(cv.move_start_position * travel + elapsed * 100, travel)
             down == TruncDiv(cv.move_start_position * travel - elapsed * 100, travel)
         IN IF cv.is_opening THEN [cv EXCEPT !.position = Clamp(up)]
            ELSE IF cv.is_closing THEN [cv EXCEPT !.position = Clamp(down)]
            ELSE cv

\* _update_position at time t; start + (elapsed / travel) * 100 is computed
\* exactly, as (start * travel + elapsed * 100) / travel, and then truncated
UpdatePosition(cv, t) ==
    IF cv.move_start_time = NoNumber \/ cv.move_start_position = NoNumber
    THEN cv
    ELSE LET elapsed == t - cv.move_start_time
             travel == IF cv.is_opening THEN cv.travel_time_open
                       ELSE cv.travel_time_close
             up == TruncDiv(cv.move_start_position * travel + elapsed * 100, travel)
             down == TruncDiv(cv.move_start_position * travel - elapsed * 100, travel)
         IN IF cv.is_opening THEN [cv EXCEPT !.position = Clamp(up)]
            ELSE IF cv.is_closing THEN [cv EXCEPT !.position = Clamp(down)]
            ELSE cv

\* _stop_position_tracking
StopTracking(cv) ==
    LET k == cv.position_update_task
    IN [cv EXCEPT !.tasks = IF k # None /\ cv.tasks[k] \in {"sleeping", "due"}
                            THEN [cv.tasks EXCEPT ![k] = "cancelled"]
                            ELSE cv.tasks,
                  !.position_update_task = None]

\* a task object not in use
FreePosTask(cv) == CHOOSE k \in PosTaskIds :
    cv.tasks[k] = "unused" /\ \A j \in PosTaskIds : cv.tasks[j] = "unused" => k <= j

HasFreePosTask(cv) == \E k \in PosTaskIds : cv.tasks[k] = "unused"

\* _start_position_tracking: the new task starts eagerly and suspends in its
\* first asyncio.sleep(0.2). (stops is history, not program state: the stop
\* commands the recompute loop has written since the move began.)
StartTracking(cv) ==
    LET s == StopTracking(cv)
        k == FreePosTask(cv)
    IN [s EXCEPT !.tasks[k] = "sleeping", !.position_update_task = k, !.stops = 0]

\* the stopped branch with the target forgotten: the position is always
\* recomputed from the elapsed time
StoppedOnIgnoringTarget(cv, t) ==
    LET f == UpdatePosition(StopTracking(cv), t)
    IN [f EXCEPT !.position = Clamp(f.position),
                 !.is_opening = FALSE, !.is_closing = FALSE,
                 !.move_start_time = NoNumber, !.move_start_position = NoNumber,
                 !.target_position = NoNumber]

\* _handle_event, branch `event == EVENT_STOPPED`
StoppedOn(cv, t) ==
    LET s == StopTracking(cv)
        f == IF s.target_position # NoNumber
             THEN [s EXCEPT !.position = s.target_position]
             ELSE UpdatePosition(s, t)
        p == IF f.position = NoNumber THEN NoNumber
             ELSE IF f.position <= 0 THEN 0
             ELSE IF f.position >= 100 THEN 100
             ELSE f.position
    IN [f EXCEPT !.position = p, !.is_opening = FALSE, !.is_closing = FALSE,
                 !.move_start_time = NoNumber, !.move_start_position = NoNumber,
                 !.target_position = NoNumber]

\* _handle_event
HandleEventOn(cv, event, t) ==
    IF event = EVENT_STARTED_MOVING_UP
    THEN StartTracking([cv EXCEPT !.is_opening = TRUE, !.is_closing = FALSE,
                                  !.move_start_time = t,
                                  !.move_start_position = cv.position])
    ELSE IF event = EVENT_STARTED_MOVING_DOWN
    THEN StartTracking([cv EXCEPT !.is_opening = FALSE, !.is_closing = TRUE,
                                  !.move_start_time = t,
                                  !.move_start_position = cv.position])
    ELSE IF event = EVENT_STOPPED THEN StoppedOn(cv, t)
    ELSE cv

\* an event needs a task object when it starts a move
EventNeedsTask(event) == event \in {EVENT_STARTED_MOVING_UP, EVENT_STARTED_MOVING_DOWN}

\* async_dispatcher_send(f"{SIGNAL_DEVICE_EVENT}_{device_id}", command): the
\* entities subscribed to that device id handle the event
DispatchEvent(cvs, device_id, command, t) ==
    [c \in CoverIds |-> IF c = device_id /\ cvs[c].added
                        THEN HandleEventOn(cvs[c], command, t)
                        ELSE cvs[c]]

CanDispatch(cvs, device_id, command) ==
    \A c \in CoverIds :
        (c = device_id /\ cvs[c].added /\ EventNeedsTask(command))
            => HasFreePosTask(cvs[c])

\* ------------------------------------------------ session: dispatch

\* future.set_result(res) on the future task t awaits
Fulfil(t, res) == [task EXCEPT ![t].fut = "done", ![t].res = res]

\* task.cancel() on a retry task: one that never started never runs its body,
\* one that sleeps gets CancelledError at its await
CancelRetry(rts, k) ==
    IF k = None THEN rts
    ELSE IF rts[k] = "created" THEN [rts EXCEPT ![k] = "unused"]
    ELSE IF rts[k] = "sleeping" THEN [rts EXCEPT ![k] = "cancelled"]
    ELSE rts

\* the ghost record of a retry task ends with the task
Forget(rf, rts) == [k \in RetryIds |-> IF rts[k] = "unused" THEN <<>> ELSE rf[k]]

FreeRetryTask == CHOOSE k \in RetryIds :
    retry_tasks[k] = "unused" /\ \A j \in RetryIds : retry_tasks[j] = "unused" => k <= j

FreeStopTask == CHOOSE k \in StopIds :
    stop_tasks[k] = "unused" /\ \A j \in StopIds : stop_tasks[j] = "unused" => k <= j

\* the mode with "unknown" for a response without a "B:" token
RECURSIVE ModeFromDefaultUnknown(_, _)
ModeFromDefaultUnknown(parts, i) ==
    IF i > Len(parts) THEN "unknown"
    ELSE IF StartsWith(parts[i], <<"B", ":">>)
         THEN LET boot_mode == SliceFrom(parts[i], 2)
              IN IF boot_mode = <<"0">> THEN "bootloader"
                 ELSE IF boot_mode = <<"1">> THEN "initial"
                 ELSE "unknown"
         ELSE ModeFromDefaultUnknown(parts, i + 1)

\* the mode named by the first token that starts with "B:" (for/else of the code)
RECURSIVE ModeFrom(_, _)
ModeFrom(parts, i) ==
    IF i > Len(parts) THEN "initial"
    ELSE IF StartsWith(parts[i], <<"B", ":">>)
         THEN LET boot_mode == SliceFrom(parts[i], 2)
              IN IF boot_mode = <<"0">> THEN "bootloader"
                 ELSE IF boot_mode = <<"1">> THEN "initial"
                 ELSE "unknown"
         ELSE ModeFrom(parts, i + 1)

\* _handle_message, branch `message.startswith("RFTU_")`
OnVerification(m) ==
    LET parts == Split(m)
    IN /\ device_version' = (IF parts # <<>> THEN parts[1] ELSE device_version)
       /\ device_mode' = (IF parts # <<>> THEN ModeFrom(parts, 1) ELSE device_mode)
       /\ task' = (IF parts # <<>> /\ Pending(verify_future)
                   THEN Fulfil(verify_future, <<>>) ELSE task)
       /\ last' = Did("handle_message", None, "void", <<>>, <<>>, <<>>,
                      IF parts # <<>> /\ Pending(verify_future) THEN {"verify"} ELSE {},
                      <<>>, parts # <<>>)
       /\ UNCHANGED <<retry_task, retry_tasks, retry_for, stop_pairing_task, stop_tasks, cover>>

\* _handle_message, branch `message == "tE"`
OnBusy ==
    /\ IF pending_retry_command # <<>>
       THEN /\ \E k \in RetryIds : retry_tasks[k] = "unused"
            /\ retry_tasks' = [CancelRetry(retry_tasks, retry_task)
                                  EXCEPT ![FreeRetryTask] = "created"]
            /\ retry_task' = FreeRetryTask
            /\ retry_for' = Forget([retry_for EXCEPT ![FreeRetryTask] =
                                        pending_retry_command], retry_tasks')
       ELSE UNCHANGED <<retry_task, retry_tasks, retry_for>>
    /\ last' = Did("handle_message", None, "void", <<>>, <<>>, <<>>, {}, <<>>, FALSE)
    /\ UNCHANGED <<device_version, device_mode, task, stop_pairing_task, stop_tasks,
                   cover>>

\* _handle_message, branch `message.startswith("sr") and len(message) >= 8`
OnDeviceId(m) ==
    LET device_id == Slice(m, 2, 8)
    IN /\ task' = (IF Pending(device_id_future)
                   THEN Fulfil(device_id_future, device_id) ELSE task)
       /\ last' = Did("handle_message", None, "void", device_id, <<>>, <<>>,
                      IF Pending(device_id_future) THEN {"device_id"} ELSE {},
                      <<>>, FALSE)
       /\ UNCHANGED <<device_version, device_mode, retry_task, retry_tasks, retry_for,
                      stop_pairing_task, stop_tasks, cover>>

\* the pairing wait is fulfilled: set_result, and the deferred stop of pairing
\* mode is scheduled (asyncio.create_task(self._stop_pairing_mode(delay=True)))
FulfilPairing(device_id) ==
    /\ \E k \in StopIds : stop_tasks[k] = "unused"
    /\ task' = Fulfil(pairing_future, device_id)
    /\ stop_tasks' = [stop_tasks EXCEPT ![FreeStopTask] = "pending"]
    /\ stop_pairing_task' = FreeStopTask
    /\ last' = Did("handle_message", None, "void", device_id, <<>>, <<>>,
                   {"pairing"}, <<>>, FALSE)
    /\ UNCHANGED <<device_version, device_mode, retry_task, retry_tasks, retry_for, cover>>

\* the sl branch with the test of the registry the ss branch makes
OnPairingListUnknownOnly(m) ==
    LET device_id == Slice(m, 6, 12)
    IN IF Pending(pairing_future) /\ device_id \notin DOMAIN registered_devices
       THEN FulfilPairing(device_id)
       ELSE /\ last' = Did("handle_message", None, "void", device_id, <<>>, <<>>,
                           {}, <<>>, FALSE)
            /\ UNCHANGED <<device_version, device_mode, task, retry_task, retry_tasks, retry_for,
                           stop_pairing_task, stop_tasks, cover>>

\* _handle_message, branch `message.startswith("sl") and len(message) >= 8`
OnPairingList(m) ==
    LET device_id == Slice(m, 6, 12)
    IN IF Pending(pairing_future)
       THEN FulfilPairing(device_id)
       ELSE /\ last' = Did("handle_message", None, "void", device_id, <<>>, <<>>,
                           {}, <<>>, FALSE)
            /\ UNCHANGED <<device_version, device_mode, task, retry_task, retry_tasks, retry_for,
                           stop_pairing_task, stop_tasks, cover>>

\* the ss branch taking the command from the counter field
OnDeviceEventReadsCounter(m) ==
    LET device_enum == Slice(m, 2, 4)
        device_id == Slice(m, 4, 10)
        command == Slice(m, 10, 12)
    IN IF Pending(pairing_future) /\ device_id \notin DOMAIN registered_devices
       THEN FulfilPairing(device_id)
       ELSE /\ CanDispatch(cover, device_id, command)
            /\ cover' = DispatchEvent(cover, device_id, command, now)
            /\ last' = Did("handle_message", None, "void", device_id, device_enum,
                           <<>>, {}, <<<<device_id, command>>>>, FALSE)
            /\ UNCHANGED <<device_version, device_mode, task, retry_task, retry_tasks,
                           retry_for, stop_pairing_task, stop_tasks>>

\* the ss branch forwarding only the events of registered devices
OnDeviceEventDropsUnknown(m) ==
    LET device_enum == Slice(m, 2, 4)
        device_id == Slice(m, 4, 10)
        command == Slice(m, 14, 16)
    IN IF Pending(pairing_future) /\ device_id \notin DOMAIN registered_devices
       THEN FulfilPairing(device_id)
       ELSE /\ CanDispatch(cover, device_id, command)
            /\ cover' = DispatchEvent(cover, device_id, command, now)
            /\ last' = Did("handle_message", None, "void", device_id, device_enum,
                           <<>>, {},
                           IF device_id \in DOMAIN registered_devices
                           THEN <<<<device_id, command>>>> ELSE <<>>, FALSE)
            /\ UNCHANGED <<device_version, device_mode, task, retry_task, retry_tasks,
                           retry_for, stop_pairing_task, stop_tasks>>

\* the ss branch without the `return` after the pairing wait is fulfilled
OnDeviceEventAlsoForwards(m) ==
    LET device_enum == Slice(m, 2, 4)
        device_id == Slice(m, 4, 10)
        command == Slice(m, 14, 16)
    IN /\ CanDispatch(cover, device_id, command)
       /\ cover' = DispatchEvent(cover, device_id, command, now)
       /\ UNCHANGED <<device_version, device_mode, retry_task, retry_tasks, retry_for>>
       /\ IF Pending(pairing_future) /\ device_id \notin DOMAIN registered_devices
          THEN /\ \E k \in StopIds : stop_tasks[k] = "unused"
               /\ task' = Fulfil(pairing_future, device_id)
               /\ stop_tasks' = [stop_tasks EXCEPT ![FreeStopTask] = "pending"]
               /\ stop_pairing_task' = FreeStopTask
               /\ last' = Did("handle_message", None, "void", device_id, device_enum,
                              <<>>, {"pairing"}, <<<<device_id, command>>>>, FALSE)
          ELSE /\ last' = Did("handle_message", None, "void", device_id, device_enum,
                              <<>>, {}, <<<<device_id, command>>>>, FALSE)
               /\ UNCHANGED <<task, stop_pairing_task, stop_tasks>>

\* _handle_message, branch `message.startswith("ss") and len(message) >= 18`
OnDeviceEvent(m) ==
    LET device_enum == Slice(m, 2, 4)
        device_id == Slice(m, 4, 10)
        command == Slice(m, 14, 16)
    IN IF Pending(pairing_future) /\ device_id \notin DOMAIN registered_devices
       THEN FulfilPairing(device_id)
       ELSE /\ CanDispatch(cover, device_id, command)
            /\ cover' = DispatchEvent(cover, device_id, command, now)
            /\ last' = Did("handle_message", None, "void", device_id, device_enum,
                           <<>>, {}, <<<<device_id, command>>>>, FALSE)
            /\ UNCHANGED <<device_version, device_mode, task, retry_task, retry_tasks, retry_for,
                           stop_pairing_task, stop_tasks>>

\* a line that no branch takes
OnUnrecognized ==
    /\ last' = Did("handle_message", None, "void", <<>>, <<>>, <<>>, {}, <<>>, FALSE)
    /\ UNCHANGED <<device_version, device_mode, task, retry_task, retry_tasks, retry_for,
                   stop_pairing_task, stop_tasks, cover>>

\* the branches without the length tests of the sr and sl lines
DispatchAnyLength(m) ==
    IF StartsWith(m, <<"R", "F", "T", "U", "_">>) THEN OnVerification(m)
    ELSE IF m \in {<<"t", "1">>, <<"t", "0">>} THEN OnUnrecognized
    ELSE IF m = <<"t", "E">> THEN OnBusy
    ELSE IF StartsWith(m, <<"s", "r">>) THEN OnDeviceId(m)
    ELSE IF StartsWith(m, <<"s", "l">>) THEN OnPairingList(m)
    ELSE IF StartsWith(m, <<"s", "s">>) /\ Len(m) >= 18 THEN OnDeviceEvent(m)
    ELSE OnUnrecognized

\* _handle_message: the branches in the order of the code, first match wins
Dispatch(m) ==
    IF StartsWith(m, <<"R", "F", "T", "U", "_">>) THEN OnVerification(m)
    ELSE IF m \in {<<"t", "1">>, <<"t", "0">>} THEN OnUnrecognized
    ELSE IF m = <<"t", "E">> THEN OnBusy
    ELSE IF StartsWith(m, <<"s", "r">>) /\ Len(m) >= 8 THEN OnDeviceId(m)
    ELSE IF StartsWith(m, <<"s", "l">>) /\ Len(m) >= 8 THEN OnPairingList(m)
    ELSE IF StartsWith(m, <<"s", "s">>) /\ Len(m) >= 18 THEN OnDeviceEvent(m)
    ELSE OnUnrecognized

\* a line arrives from the open serial port and the protocol hands it to
\* _handle_message
HandleMessage(m) ==
    /\ ops < MaxOps
    /\ \E tr \in TransportIds : transports[tr] = "open"
    /\ ops' = ops + 1
    /\ Dispatch(m)
    /\ UNCHANGED <<transport, transports, is_connecting, is_connected, hub_id,
                   verify_future, device_id_future, pairing_future,
                   pending_retry_command, registered_devices, reconnect_timers, now,
                   protocol>>

\* ------------------------------------------------ session: requests

connVars == <<transport, transports, is_connecting, is_connected, device_version,
              device_mode, hub_id, reconnect_timers>>
retryVars == <<retry_task, retry_tasks, retry_for>>
stopVars == <<stop_pairing_task, stop_tasks>>
coverVars == <<cover, now>>
\* the session state an entity's own operations never touch
quietVars == <<transport, transports, is_connecting, is_connected, device_version,
               device_mode, hub_id, reconnect_timers, verify_future, device_id_future,
               pairing_future, task, retry_task, retry_tasks, retry_for,
               stop_pairing_task, stop_tasks>>

\* the reentry check of verify_device() left out
NoVerifyGuard == FALSE

\* `if self._verify_future and not self._verify_future.done()`
VerifyInProgress == Pending(verify_future)

\* `if self._device_id_future and not self._device_id_future.done()`
DeviceIdInProgress == Pending(device_id_future)

\* `if self._pairing_future and not self._pairing_future.done()`
PairingInProgress == Pending(pairing_future)

\* verify_device() up to its wait_for
VerifyDevice(t) ==
    /\ ops < MaxOps /\ task[t].pc = "idle"
    /\ ops' = ops + 1
    /\ IF VerifyInProgress
       THEN /\ last' = Did("verify_device", t, "false", <<>>, <<>>, <<>>, {}, <<>>, FALSE)
            /\ UNCHANGED <<verify_future, task, pending_retry_command>>
       ELSE /\ verify_future' = t
            /\ task' = [task EXCEPT ![t] = Waiting("verify_wait", <<>>)]
            /\ pending_retry_command' = RetryRecord(CMD_VERIFY, transport, transports)
            /\ last' = Did("verify_device", t, "void", <<>>, <<>>,
                           Written(CMD_VERIFY, transport, transports), {}, <<>>, FALSE)
    /\ UNCHANGED <<connVars, device_id_future, pairing_future, retryVars, stopVars,
                   registered_devices, coverVars,
                   protocol>>

\* get_device_id() up to its wait_for
GetDeviceId(t) ==
    /\ ops < MaxOps /\ task[t].pc = "idle"
    /\ ops' = ops + 1
    /\ IF DeviceIdInProgress
       THEN /\ last' = Did("get_device_id", t, "none", <<>>, <<>>, <<>>, {}, <<>>, FALSE)
            /\ UNCHANGED <<device_id_future, task, pending_retry_command>>
       ELSE /\ device_id_future' = t
            /\ task' = [task EXCEPT ![t] = Waiting("id_wait", <<>>)]
            /\ pending_retry_command' =
                   RetryRecord(CMD_GET_DEVICE_ID, transport, transports)
            /\ last' = Did("get_device_id", t, "void", <<>>, <<>>,
                           Written(CMD_GET_DEVICE_ID, transport, transports),
                           {}, <<>>, FALSE)
    /\ UNCHANGED <<connVars, verify_future, pairing_future, retryVars, stopVars,
                   registered_devices, coverVars,
                   protocol>>

\* pair_device_and_wait() up to its wait_for
PairDeviceAndWait(t) ==
    /\ ops < MaxOps /\ task[t].pc = "idle"
    /\ ops' = ops + 1
    /\ IF PairingInProgress
       THEN /\ last' = Did("pair_device_and_wait", t, "none", <<>>, <<>>, <<>>, {},
                           <<>>, FALSE)
            /\ UNCHANGED <<pairing_future, task>>
       ELSE /\ pairing_future' = t
            /\ task' = [task EXCEPT
                   ![t] = Waiting("pair_wait", NextDeviceEnum(registered_devices))]
            /\ last' = Did("pair_device_and_wait", t, "void", <<>>,
                           NextDeviceEnum(registered_devices), <<>>, {}, <<>>, FALSE)
    /\ UNCHANGED <<connVars, verify_future, device_id_future, pending_retry_command,
                   retryVars, stopVars, registered_devices, coverVars,
                   protocol>>

WaitPcs == {"verify_wait", "id_wait", "pair_wait", "conn_verify", "conn_id"}

\* the timeout of wait_for expires: the waiting task is cancelled, which
\* cancels the future it awaits; the task itself runs later
FutureTimeout(t) ==
    /\ ops < MaxOps
    /\ task[t].pc \in WaitPcs /\ task[t].fut = "pending"
    /\ ops' = ops + 1
    /\ task' = [task EXCEPT ![t].fut = "cancelled"]
    /\ last' = Did("timeout", t, "void", <<>>, <<>>, <<>>, {}, <<>>, FALSE)
    /\ UNCHANGED <<connVars, verify_future, device_id_future, pairing_future,
                   pending_retry_command, retryVars, stopVars, registered_devices,
                   coverVars,
                   protocol>>

\* verify_device() from the wake-up of its wait_for to its return
VerifyDeviceReturns(t) ==
    /\ task[t].pc = "verify_wait" /\ task[t].fut \in {"done", "cancelled"}
    /\ verify_future' = None
    /\ task' = [task EXCEPT ![t] = IdleTask]
    /\ last' = Did("verify_device_returns", t,
                   IF task[t].fut = "done" THEN "true" ELSE "false",
                   <<>>, <<>>, <<>>, {}, <<>>, FALSE)
    /\ UNCHANGED <<connVars, device_id_future, pairing_future, pending_retry_command,
                   retryVars, stopVars, registered_devices, coverVars, ops,
                   protocol>>

\* get_device_id() from the wake-up of its wait_for to its return
GetDeviceIdReturns(t) ==
    /\ task[t].pc = "id_wait" /\ task[t].fut \in {"done", "cancelled"}
    /\ device_id_future' = None
    /\ task' = [task EXCEPT ![t] = IdleTask]
    /\ last' = Did("get_device_id_returns", t,
                   IF task[t].fut = "done" THEN "id" ELSE "none",
                   IF task[t].fut = "done" THEN task[t].res ELSE <<>>,
                   <<>>, <<>>, {}, <<>>, FALSE)
    /\ UNCHANGED <<connVars, verify_future, pairing_future, pending_retry_command,
                   retryVars, stopVars, registered_devices, coverVars, ops,
                   protocol>>

\* pair_device_and_wait() from the wake-up of its wait_for to its return
PairDeviceReturns(t) ==
    /\ task[t].pc = "pair_wait" /\ task[t].fut \in {"done", "cancelled"}
    /\ pairing_future' = None
    /\ task' = [task EXCEPT ![t] = IdleTask]
    /\ IF task[t].fut = "done"
       THEN /\ pending_retry_command' =
                   RetryRecord(PairCommand(task[t].enum), transport, transports)
            /\ last' = Did("pair_device_returns", t, "pair", task[t].res, task[t].enum,
                           Written(PairCommand(task[t].enum), transport, transports),
                           {}, <<>>, FALSE)
       ELSE /\ UNCHANGED pending_retry_command
            /\ last' = Did("pair_device_returns", t, "none", <<>>, task[t].enum, <<>>,
                           {}, <<>>, FALSE)
    /\ UNCHANGED <<connVars, verify_future, device_id_future, retryVars, stopVars,
                   registered_devices, coverVars, ops,
                   protocol>>

\* ------------------------------------------------ session: connection

\* the reentry guard of connect() without its test of the transport
ConnectGuardNoTransport == is_connecting

\* the reentry guard of connect()
ConnectGuard == is_connecting \/ CanWrite(transport, transports)

\* connect() up to `await create_serial_connection(...)`
ConnectBody(t, op) ==
    /\ task[t].pc = "idle"
    /\ IF ConnectGuard
       THEN /\ last' = Did(op, t, "none", <<>>, <<>>, <<>>, {}, <<>>, FALSE)
            /\ UNCHANGED <<is_connecting, task>>
       ELSE /\ is_connecting' = TRUE
            /\ task' = [task EXCEPT ![t].pc = "conn_open"]
            /\ last' = Did(op, t, "void", <<>>, <<>>, <<>>, {}, <<>>, FALSE)
    /\ UNCHANGED <<transport, transports, is_connected, device_version, device_mode,
                   hub_id, verify_future, device_id_future,
                   pairing_future, pending_retry_command, retryVars, stopVars,
                   registered_devices, coverVars,
                   protocol>>

\* connect() called by the integration
Connect(t) ==
    /\ ops < MaxOps
    /\ ops' = ops + 1
    /\ ConnectBody(t, "connect")
    /\ UNCHANGED reconnect_timers

\* the 5-second timer of a failed open runs connect() in a task of its own
ReconnectTimerFires(t) ==
    /\ reconnect_timers > 0
    /\ ConnectBody(t, "reconnect")
    /\ reconnect_timers' = reconnect_timers - 1
    /\ UNCHANGED ops

FreeTransport == CHOOSE x \in TransportIds :
    transports[x] = "unused" /\ \A y \in TransportIds : transports[y] = "unused" => x <= y

\* the open succeeds; connect() goes on into verify_device() up to its wait_for,
\* or to its return when verify_device() refuses
OpenSucceeds(t) ==
    /\ ops < MaxOps /\ task[t].pc = "conn_open"
    /\ \E x \in TransportIds : transports[x] = "unused"
    /\ ops' = ops + 1
    /\ is_connecting' = FALSE
    /\ LET new == FreeTransport
           opened == [Collect(transports, new) EXCEPT ![new] = "open"]
       IN IF VerifyInProgress
          THEN /\ transports' = Closed(opened, new)
               /\ transport' = None
               /\ is_connected' = FALSE
               /\ task' = [task EXCEPT ![t] = IdleTask]
               /\ last' = Did("connect_opened", t, "none", <<>>, <<>>, <<>>, {}, <<>>,
                              FALSE)
               /\ UNCHANGED <<verify_future, pending_retry_command>>
          ELSE /\ transports' = opened
               /\ transport' = new
               /\ verify_future' = t
               /\ task' = [task EXCEPT ![t] = Waiting("conn_verify", <<>>)]
               /\ pending_retry_command' = CMD_VERIFY
               /\ last' = Did("connect_opened", t, "void", <<>>, <<>>, <<CMD_VERIFY>>,
                              {}, <<>>, FALSE)
               /\ UNCHANGED is_connected
    /\ UNCHANGED <<device_version, device_mode, hub_id, reconnect_timers,
                   device_id_future, pairing_future, retryVars, stopVars,
                   registered_devices, coverVars,
                   protocol>>

\* a failed open that leaves the connecting guard set
OpenFailsKeepsGuard(t) ==
    /\ ops < MaxOps /\ task[t].pc = "conn_open"
    /\ ops' = ops + 1
    /\ reconnect_timers' = reconnect_timers + 1
    /\ task' = [task EXCEPT ![t] = IdleTask]
    /\ last' = Did("connect_failed", t, "none", <<>>, <<>>, <<>>, {}, <<>>, FALSE)
    /\ UNCHANGED <<transport, transports, is_connecting, is_connected, device_version,
                   device_mode, hub_id, verify_future, device_id_future,
                   pairing_future, pending_retry_command, retryVars, stopVars,
                   registered_devices, coverVars, protocol>>

\* the open raises SerialException / OSError: a retry is scheduled
OpenFails(t) ==
    /\ ops < MaxOps /\ task[t].pc = "conn_open"
    /\ ops' = ops + 1
    /\ is_connecting' = FALSE
    /\ reconnect_timers' = reconnect_timers + 1
    /\ task' = [task EXCEPT ![t] = IdleTask]
    /\ last' = Did("connect_failed", t, "none", <<>>, <<>>, <<>>, {}, <<>>, FALSE)
    /\ UNCHANGED <<transport, transports, is_connected, device_version, device_mode,
                   hub_id, verify_future, device_id_future, pairing_future,
                   pending_retry_command, retryVars, stopVars, registered_devices,
                   coverVars,
                   protocol>>

\* get_device_id() as called by connect(), up to its wait_for or its refusal
ConnectGetsDeviceId(t, op, notified, wrote_before, tr, trs) ==
    IF DeviceIdInProgress
    THEN /\ task' = [task EXCEPT ![t] = IdleTask]
         /\ last' = Did(op, t, "none", <<>>, <<>>, wrote_before, {}, <<>>, notified)
         /\ UNCHANGED <<device_id_future, pending_retry_command>>
    ELSE /\ device_id_future' = t
         /\ task' = [task EXCEPT ![t] = Waiting("conn_id", <<>>)]
         /\ pending_retry_command' = RetryRecord(CMD_GET_DEVICE_ID, tr, trs)
         /\ last' = Did(op, t, "void", <<>>, <<>>,
                        wrote_before \o Written(CMD_GET_DEVICE_ID, tr, trs),
                        {}, <<>>, notified)

\* connect() from the wake-up of verify_device()'s wait_for to its next await
ConnectVerified(t) ==
    /\ task[t].pc = "conn_verify" /\ task[t].fut \in {"done", "cancelled"}
    /\ verify_future' = None
    /\ IF task[t].fut = "cancelled"
       THEN /\ transports' = Collect(Closed(transports, transport), None)
            /\ transport' = None
            /\ is_connected' = FALSE
            /\ task' = [task EXCEPT ![t] = IdleTask]
            /\ last' = Did("connect_unverified", t, "none", <<>>, <<>>, <<>>, {}, <<>>,
                           FALSE)
            /\ UNCHANGED <<device_id_future, pending_retry_command>>
       ELSE /\ is_connected' = TRUE
            /\ UNCHANGED <<transport, transports>>
            /\ IF device_mode # "listening"
               THEN /\ pending_retry_command' =
                           RetryRecord(CMD_HELLO, transport, transports)
                    /\ task' = [task EXCEPT ![t] =
                           [pc |-> "conn_sleep", fut |-> "none", res |-> <<>>,
                            enum |-> <<>>]]
                    /\ last' = Did("connect_verified", t, "void", <<>>, <<>>,
                                   Written(CMD_HELLO, transport, transports), {}, <<>>,
                                   TRUE)
                    /\ UNCHANGED device_id_future
               ELSE ConnectGetsDeviceId(t, "connect_verified", TRUE, <<>>,
                                        transport, transports)
    /\ UNCHANGED <<is_connecting, device_version, device_mode, hub_id, reconnect_timers,
                   pairing_future, retryVars, stopVars, registered_devices, coverVars,
                   ops,
                   protocol>>

\* connect() from the end of asyncio.sleep(0.5) to get_device_id()'s wait_for
ConnectSettled(t) ==
    /\ task[t].pc = "conn_sleep"
    /\ device_mode' = "listening"
    /\ ConnectGetsDeviceId(t, "connect_settled", TRUE, <<>>, transport, transports)
    /\ UNCHANGED <<transport, transports, is_connecting, is_connected, device_version,
                   hub_id, reconnect_timers, verify_future, pairing_future, retryVars,
                   stopVars, registered_devices, coverVars, ops,
                   protocol>>

\* connect() treating a failed device-ID query as a failed connection
ConnectReturnsFatalHubId(t) ==
    /\ task[t].pc = "conn_id" /\ task[t].fut \in {"done", "cancelled"}
    /\ device_id_future' = None
    /\ hub_id' = (IF task[t].fut = "done" /\ task[t].res # <<>>
                  THEN task[t].res ELSE hub_id)
    /\ is_connected' = (task[t].fut = "done" /\ is_connected)
    /\ task' = [task EXCEPT ![t] = IdleTask]
    /\ last' = Did("connect_returns", t, "none", <<>>, <<>>, <<>>, {}, <<>>, FALSE)
    /\ UNCHANGED <<transport, transports, is_connecting, device_version,
                   device_mode, reconnect_timers, verify_future, pairing_future,
                   pending_retry_command, retryVars, stopVars, registered_devices,
                   coverVars, ops,
                   protocol>>

\* connect() from the wake-up of get_device_id()'s wait_for to its return
ConnectReturns(t) ==
    /\ task[t].pc = "conn_id" /\ task[t].fut \in {"done", "cancelled"}
    /\ device_id_future' = None
    /\ hub_id' = (IF task[t].fut = "done" /\ task[t].res # <<>>
                  THEN task[t].res ELSE hub_id)
    /\ task' = [task EXCEPT ![t] = IdleTask]
    /\ last' = Did("connect_returns", t, "none", <<>>, <<>>, <<>>, {}, <<>>, FALSE)
    /\ UNCHANGED <<transport, transports, is_connecting, is_connected, device_version,
                   device_mode, reconnect_timers, verify_future, pairing_future,
                   pending_retry_command, retryVars, stopVars, registered_devices,
                   coverVars, ops,
                   protocol>>

\* disconnect()
Disconnect ==
    /\ ops < MaxOps
    /\ ops' = ops + 1
    /\ retry_tasks' = CancelRetry(retry_tasks, retry_task)
    /\ retry_for' = Forget(retry_for, retry_tasks')
    /\ retry_task' = None
    /\ transports' = Collect(Closed(transports, transport), None)
    /\ transport' = None
    /\ last' = Did("disconnect", None, "none", <<>>, <<>>, <<>>, {}, <<>>, FALSE)
    /\ UNCHANGED <<is_connecting, is_connected, device_version, device_mode, hub_id,
                   reconnect_timers, verify_future, device_id_future, pairing_future,
                   task, pending_retry_command, stopVars, registered_devices,
                   coverVars,
                   protocol>>

\* connection_lost that also schedules the 5-second reconnect of a failed open
ConnectionLostReconnects(x) ==
    /\ transports[x] \in {"open", "closing"}
    /\ transports[x] = "open" => ops < MaxOps
    /\ ops' = IF transports[x] = "open" THEN ops + 1 ELSE ops
    /\ transports' = Collect([transports EXCEPT ![x] = "closed"], transport)
    /\ is_connected' = FALSE
    /\ reconnect_timers' = reconnect_timers + 1
    /\ last' = Did("connection_lost", None, "none", <<>>, <<>>, <<>>, {}, <<>>, TRUE)
    /\ UNCHANGED <<transport, is_connecting, device_version, device_mode, hub_id,
                   verify_future, device_id_future, pairing_future,
                   task, pending_retry_command, retryVars, stopVars,
                   registered_devices, coverVars,
                   protocol>>

\* SchellenbergProtocol.connection_lost: the port fails, or a close() completes
ConnectionLost(x) ==
    /\ transports[x] \in {"open", "closing"}
    /\ transports[x] = "open" => ops < MaxOps
    /\ ops' = IF transports[x] = "open" THEN ops + 1 ELSE ops
    /\ transports' = Collect([transports EXCEPT ![x] = "closed"], transport)
    /\ is_connected' = FALSE
    /\ last' = Did("connection_lost", None, "none", <<>>, <<>>, <<>>, {}, <<>>, TRUE)
    /\ UNCHANGED <<transport, is_connecting, device_version, device_mode, hub_id,
                   reconnect_timers, verify_future, device_id_future, pairing_future,
                   task, pending_retry_command, retryVars, stopVars,
                   registered_devices, coverVars,
                   protocol>>

\* ------------------------------------------------ session: commands

\* actions a caller may hand to control_blind (the last one is invalid)
BlindActions == {CMD_UP, CMD_STOP, <<"7", "7">>}
ENUM_10 == <<"1", "0">>
ENUM_FF == <<"F", "F">>

\* control_blind(device_enum, action): what it hands to send_command
BlindCommands(device_enum, action) ==
    IF action \notin {CMD_UP, CMD_DOWN, CMD_STOP} THEN <<>>
    ELSE <<BlindCommand(device_enum, action)>>

\* control_blind() called by an entity or a flow
ControlBlind(device_enum, action) ==
    /\ ops < MaxOps
    /\ ops' = ops + 1
    /\ LET cmds == BlindCommands(device_enum, action)
       IN IF cmds = <<>>
          THEN /\ last' = Did("control_blind", None, "none", <<>>, device_enum, <<>>,
                              {}, <<>>, FALSE)
               /\ UNCHANGED pending_retry_command
          ELSE /\ pending_retry_command' = RetryRecord(cmds[1], transport, transports)
               /\ last' = Did("control_blind", None, "none", <<>>, device_enum,
                              Written(cmds[1], transport, transports), {}, <<>>, FALSE)
    /\ UNCHANGED <<connVars, verify_future, device_id_future, pairing_future, task,
                   retryVars, stopVars, registered_devices, coverVars,
                   protocol>>

\* register_entity(device_id, device_enum)
RegisterEntity(device_id, device_enum) ==
    /\ ops < MaxOps
    /\ ops' = ops + 1
    /\ registered_devices' =
           [d \in DOMAIN registered_devices \cup {device_id} |->
                IF d = device_id THEN device_enum ELSE registered_devices[d]]
    /\ last' = Did("register_entity", None, "none", device_id, device_enum, <<>>, {},
                   <<>>, FALSE)
    /\ UNCHANGED <<connVars, verify_future, device_id_future, pairing_future, task,
                   pending_retry_command, retryVars, stopVars, coverVars,
                   protocol>>

\* remove_known_device(device_id)
RemoveKnownDevice(device_id) ==
    /\ ops < MaxOps
    /\ ops' = ops + 1
    /\ registered_devices' =
           [d \in DOMAIN registered_devices \ {device_id} |-> registered_devices[d]]
    /\ last' = Did("remove_known_device", None, "none", device_id, <<>>, <<>>, {},
                   <<>>, FALSE)
    /\ UNCHANGED <<connVars, verify_future, device_id_future, pairing_future, task,
                   pending_retry_command, retryVars, stopVars, coverVars,
                   protocol>>

\* ------------------------------------------------ session: timers

\* _retry_command_after_delay starts and suspends in asyncio.sleep(0.1)
RetryStarts(k) ==
    /\ retry_tasks[k] = "created"
    /\ retry_tasks' = [retry_tasks EXCEPT ![k] = "sleeping"]
    /\ UNCHANGED retry_for
    /\ last' = Did("retry_starts", k, "void", <<>>, <<>>, <<>>, {}, <<>>, FALSE)
    /\ UNCHANGED <<connVars, verify_future, device_id_future, pairing_future, task,
                   pending_retry_command, retry_task, stopVars, registered_devices,
                   coverVars, ops,
                   protocol>>

\* _retry_command_after_delay after its sleep: the retransmission, then `finally`
RetryFires(k) ==
    /\ retry_tasks[k] = "sleeping"
    /\ retry_tasks' = [retry_tasks EXCEPT ![k] = "unused"]
    /\ retry_for' = Forget(retry_for, retry_tasks')
    /\ retry_task' = None
    /\ IF pending_retry_command # <<>>
       THEN /\ pending_retry_command' =
                   RetryRecord(pending_retry_command, transport, transports)
            /\ last' = Did("retry_fires", k, "none", <<>>, <<>>,
                           Written(pending_retry_command, transport, transports),
                           {}, <<>>, FALSE)
       ELSE /\ UNCHANGED pending_retry_command
            /\ last' = Did("retry_fires", k, "none", <<>>, <<>>, <<>>, {}, <<>>, FALSE)
    /\ UNCHANGED <<connVars, verify_future, device_id_future, pairing_future, task,
                   stopVars, registered_devices, coverVars, ops,
                   protocol>>

\* _retry_command_after_delay gets CancelledError in its sleep: `except`, `finally`
RetryCancelled(k) ==
    /\ retry_tasks[k] = "cancelled"
    /\ retry_tasks' = [retry_tasks EXCEPT ![k] = "unused"]
    /\ retry_for' = Forget(retry_for, retry_tasks')
    /\ retry_task' = None
    /\ last' = Did("retry_cancelled", k, "none", <<>>, <<>>, <<>>, {}, <<>>, FALSE)
    /\ UNCHANGED <<connVars, verify_future, device_id_future, pairing_future, task,
                   pending_retry_command, stopVars, registered_devices, coverVars, ops,
                   protocol>>

\* a stop of pairing mode that does not sleep first
StopPairingWithoutSleep(k) ==
    /\ stop_tasks[k] = "pending"
    /\ stop_tasks' = [stop_tasks EXCEPT ![k] = "unused"]
    /\ stop_pairing_task' = None
    /\ pending_retry_command' = RetryRecord(CMD_GET_PARAM_P, transport, transports)
    /\ last' = Did("stop_pairing", k, "none", <<>>, <<>>,
                   Written(CMD_GET_PARAM_P, transport, transports), {}, <<>>, FALSE)
    /\ UNCHANGED <<connVars, verify_future, device_id_future, pairing_future, task,
                   retryVars, registered_devices, coverVars, ops,
                   protocol>>

\* _stop_pairing_mode(delay=True) after its 2-second sleep, and its done callback;
\* the caller that set_result() woke is queued ahead of the timer and has run
StopPairingFires(k) ==
    /\ stop_tasks[k] = "pending"
    /\ \A t \in Tasks : ~(task[t].pc = "pair_wait" /\ task[t].fut = "done")
    /\ stop_tasks' = [stop_tasks EXCEPT ![k] = "unused"]
    /\ stop_pairing_task' = None
    /\ pending_retry_command' = RetryRecord(CMD_GET_PARAM_P, transport, transports)
    /\ last' = Did("stop_pairing", k, "none", <<>>, <<>>,
                   Written(CMD_GET_PARAM_P, transport, transports), {}, <<>>, FALSE)
    /\ UNCHANGED <<connVars, verify_future, device_id_future, pairing_future, task,
                   retryVars, registered_devices, coverVars, ops,
                   protocol>>

\* ------------------------------------------------ session: specification

NoCover == NewCover(FALSE, <<>>, 4, 4)

\* the state after SchellenbergUsbApi.__init__, with no entity set up
Init ==
    /\ transport = None
    /\ transports = [x \in TransportIds |-> "unused"]
    /\ is_connecting = FALSE
    /\ is_connected = FALSE
    /\ device_version = <<>>
    /\ device_mode = "None"
    /\ hub_id = <<>>
    /\ verify_future = None
    /\ device_id_future = None
    /\ pairing_future = None
    /\ task = [t \in Tasks |-> IdleTask]
    /\ pending_retry_command = <<>>
    /\ retry_task = None
    /\ retry_tasks = [k \in RetryIds |-> "unused"]
    /\ retry_for = [k \in RetryIds |-> <<>>]
    /\ stop_pairing_task = None
    /\ stop_tasks = [k \in StopIds |-> "unused"]
    /\ registered_devices = <<>>
    /\ reconnect_timers = 0
    /\ last = Did("init", None, "void", <<>>, <<>>, <<>>, {}, <<>>, FALSE)
    /\ ops = 0
    /\ cover = [c \in CoverIds |-> NoCover]
    /\ now = 0
    /\ protocol = NewProtocol

Next ==
    \/ \E t \in Tasks : VerifyDevice(t)
    \/ \E t \in Tasks : GetDeviceId(t)
    \/ \E t \in Tasks : PairDeviceAndWait(t)
    \/ \E t \in Tasks : FutureTimeout(t)
    \/ \E t \in Tasks : VerifyDeviceReturns(t)
    \/ \E t \in Tasks : GetDeviceIdReturns(t)
    \/ \E t \in Tasks : PairDeviceReturns(t)
    \/ \E m \in Lines : HandleMessage(m)
    \/ \E t \in Tasks : Connect(t)
    \/ \E t \in Tasks : ReconnectTimerFires(t)
    \/ \E t \in Tasks : OpenSucceeds(t)
    \/ \E t \in Tasks : OpenFails(t)
    \/ \E t \in Tasks : ConnectVerified(t)
    \/ \E t \in Tasks : ConnectSettled(t)
    \/ \E t \in Tasks : ConnectReturns(t)
    \/ Disconnect
    \/ \E x \in TransportIds : ConnectionLost(x)
    \/ \E a \in BlindActions : ControlBlind(ENUM_10, a)
    \/ \E e \in {ENUM_10, ENUM_FF} : RegisterEntity(DEV_A, e)
    \/ RemoveKnownDevice(DEV_A)
    \/ \E k \in RetryIds : RetryStarts(k)
    \/ \E k \in RetryIds : RetryFires(k)
    \/ \E k \in RetryIds : RetryCancelled(k)
    \/ \E k \in StopIds : StopPairingFires(k)

Spec == Init /\ [][Next]_vars

\* a state connect() goes through: the stick verified and was switched to
\* listening mode, and connect() (task 1) awaits the answer to its device-ID query
ConnectedInit ==
    /\ transport = 1
    /\ transports = [x \in TransportIds |-> IF x = 1 THEN "open" ELSE "unused"]
    /\ is_connecting = FALSE
    /\ is_connected = TRUE
    /\ device_version = Split(LINE_RFTU_B1)[1]
    /\ device_mode = "listening"
    /\ hub_id = <<>>
    /\ verify_future = None
    /\ device_id_future = 1
    /\ pairing_future = None
    /\ task = [t \in Tasks |-> IF t = 1 THEN Waiting("conn_id", <<>>) ELSE IdleTask]
    /\ pending_retry_command = CMD_GET_DEVICE_ID
    /\ retry_task = None
    /\ retry_tasks = [k \in RetryIds |-> "unused"]
    /\ retry_for = [k \in RetryIds |-> <<>>]
    /\ stop_pairing_task = None
    /\ stop_tasks = [k \in StopIds |-> "unused"]
    /\ registered_devices = <<>>
    /\ reconnect_timers = 0
    /\ last = Did("connect_settled", 1, "void", <<>>, <<>>, <<CMD_GET_DEVICE_ID>>, {},
                  <<>>, TRUE)
    /\ ops = 1      \* the connection made counts as one stimulus
    /\ cover = [c \in CoverIds |-> NoCover]
    /\ now = 0
    /\ protocol = NewProtocol

ConnectedSpec == ConnectedInit /\ [][Next]_vars

\* ------------------------------------------------ cover: operations

\* what async_get_last_state() may return: nothing, a state with a position
\* attribute, or a state without one
RestoreInputs ==
    {[found |-> FALSE, has_position |-> FALSE, raw_position |-> 0, state |-> "unknown"]}
    \cup {[found |-> TRUE, has_position |-> TRUE, raw_position |-> r, state |-> "open"] :
             r \in RawPositions}
    \cup {[found |-> TRUE, has_position |-> FALSE, raw_position |-> 0, state |-> st] :
             st \in {"open", "closed", "unavailable"}}

\* the position async_added_to_hass restores, NoNumber when there is none
RestoredPosition(r) ==
    IF ~r.found THEN NoNumber
    ELSE IF r.has_position THEN Clamp(r.raw_position)
    ELSE IF r.state = "open" THEN Clamp(100)
    ELSE IF r.state = "closed" THEN Clamp(0)
    ELSE NoNumber

\* async_added_to_hass
AddedToHass(c, r) ==
    /\ ops < MaxCoverOps
    /\ ops' = ops + 1
    /\ cover[c].exists /\ ~cover[c].added /\ ~cover[c].removed
    /\ registered_devices' =
           [d \in DOMAIN registered_devices \cup {c} |->
                IF d = c THEN cover[c].device_enum ELSE registered_devices[d]]
    /\ cover' = [cover EXCEPT ![c].added = TRUE,
                              ![c].position =
                                  IF RestoredPosition(r) # NoNumber
                                  THEN RestoredPosition(r)
                                  ELSE IF cover[c].position = NoNumber THEN 0
                                  ELSE cover[c].position]
    /\ last' = Did("added_to_hass", None, "none", c, <<>>, <<>>, {}, <<>>, FALSE)
    /\ UNCHANGED <<quietVars, pending_retry_command, now,
                   protocol>>

\* the dispatcher delivers a device event to the entity's _handle_event
CoverEvent(c, event) ==
    /\ ops < MaxCoverOps
    /\ ops' = ops + 1
    /\ cover[c].added
    /\ CanDispatch(cover, c, event)
    /\ cover' = DispatchEvent(cover, c, event, now)
    /\ last' = Did("handle_event", None, "none", c, event, <<>>, {}, <<>>, FALSE)
    /\ UNCHANGED <<quietVars, pending_retry_command, registered_devices, now,
                   protocol>>

\* async_open_cover, up to its control_blind call
OpenCoverOn(cv, t) ==
    StartTracking([cv EXCEPT !.is_opening = TRUE, !.is_closing = FALSE,
                             !.move_start_time = t,
                             !.position = IF cv.position = NoNumber THEN 0
                                          ELSE cv.position,
                             !.move_start_position = IF cv.position = NoNumber THEN 0
                                                     ELSE cv.position])

\* async_close_cover, up to its control_blind call
CloseCoverOn(cv, t) ==
    StartTracking([cv EXCEPT !.is_opening = FALSE, !.is_closing = TRUE,
                             !.move_start_time = t,
                             !.position = IF cv.position = NoNumber THEN 0
                                          ELSE cv.position,
                             !.move_start_position = IF cv.position = NoNumber THEN 0
                                                     ELSE cv.position])

\* async_stop_cover, up to its control_blind call
StopCoverOn(cv, t) ==
    LET u == UpdatePosition(StopTracking(cv), t)
    IN [u EXCEPT !.is_opening = FALSE, !.is_closing = FALSE,
                 !.move_start_time = NoNumber, !.move_start_position = NoNumber,
                 !.target_position = NoNumber]

\* an entity's call of self._api.control_blind(self._device_enum, action)
EntitySends(op, c, action) ==
    LET cmds == BlindCommands(cover[c].device_enum, action)
    IN IF cmds = <<>>
       THEN /\ last' = Did(op, None, "none", c, action, <<>>, {}, <<>>, FALSE)
            /\ UNCHANGED pending_retry_command
       ELSE /\ pending_retry_command' = RetryRecord(cmds[1], transport, transports)
            /\ last' = Did(op, None, "none", c, action,
                           Written(cmds[1], transport, transports), {}, <<>>, FALSE)

\* async_open_cover
OpenCover(c) ==
    /\ ops < MaxCoverOps
    /\ ops' = ops + 1
    /\ cover[c].added /\ HasFreePosTask(cover[c])
    /\ cover' = [cover EXCEPT ![c] = OpenCoverOn(cover[c], now)]
    /\ EntitySends("open_cover", c, CMD_UP)
    /\ UNCHANGED <<quietVars, registered_devices, now,
                   protocol>>

\* async_close_cover
CloseCover(c) ==
    /\ ops < MaxCoverOps
    /\ ops' = ops + 1
    /\ cover[c].added /\ HasFreePosTask(cover[c])
    /\ cover' = [cover EXCEPT ![c] = CloseCoverOn(cover[c], now)]
    /\ EntitySends("close_cover", c, CMD_DOWN)
    /\ UNCHANGED <<quietVars, registered_devices, now,
                   protocol>>

\* async_stop_cover
StopCover(c) ==
    /\ ops < MaxCoverOps
    /\ ops' = ops + 1
    /\ cover[c].added
    /\ cover' = [cover EXCEPT ![c] = StopCoverOn(cover[c], now)]
    /\ EntitySends("stop_cover", c, CMD_STOP)
    /\ UNCHANGED <<quietVars, registered_devices, now,
                   protocol>>

\* async_set_cover_position without the test for the position it is at
SetCoverPositionAlwaysMoves(c, target) ==
    /\ ops < MaxCoverOps
    /\ ops' = ops + 1
    /\ cover[c].added
    /\ HasFreePosTask(cover[c])
    /\ LET cv == [cover[c] EXCEPT !.position = IF cover[c].position = NoNumber THEN 0
                                               ELSE cover[c].position]
           current_position == cv.position
       IN IF target > current_position
          THEN /\ cover' = [cover EXCEPT
                      ![c] = OpenCoverOn([cv EXCEPT !.target_position = target], now)]
               /\ EntitySends("set_cover_position", c, CMD_UP)
          ELSE /\ cover' = [cover EXCEPT
                      ![c] = CloseCoverOn([cv EXCEPT !.target_position = target], now)]
               /\ EntitySends("set_cover_position", c, CMD_DOWN)
    /\ UNCHANGED <<quietVars, registered_devices, now,
                   protocol>>

\* async_set_cover_position(position=target)
SetCoverPosition(c, target) ==
    /\ ops < MaxCoverOps
    /\ ops' = ops + 1
    /\ cover[c].added
    /\ target # cover[c].position => HasFreePosTask(cover[c])
    /\ LET cv == [cover[c] EXCEPT !.position = IF cover[c].position = NoNumber THEN 0
                                               ELSE cover[c].position]
           current_position == cv.position
       IN IF target = current_position
          THEN /\ cover' = [cover EXCEPT ![c] = cv]
               /\ last' = Did("set_cover_position", None, "none", c, <<>>, <<>>, {},
                              <<>>, FALSE)
               /\ UNCHANGED pending_retry_command
          ELSE IF target > current_position
          THEN /\ cover' = [cover EXCEPT
                      ![c] = OpenCoverOn([cv EXCEPT !.target_position = target], now)]
               /\ EntitySends("set_cover_position", c, CMD_UP)
          ELSE /\ cover' = [cover EXCEPT
                      ![c] = CloseCoverOn([cv EXCEPT !.target_position = target], now)]
               /\ EntitySends("set_cover_position", c, CMD_DOWN)
    /\ UNCHANGED <<quietVars, registered_devices, now,
                   protocol>>

\* _handle_calibration_completed without the test of the device ID
CalibratedOnAny(cv, c, device_id, open_time, close_time) ==
    [cv EXCEPT !.travel_time_open = open_time, !.travel_time_close = close_time,
               !.position = 0]

\* _handle_calibration_completed
CalibratedOn(cv, c, device_id, open_time, close_time) ==
    IF device_id # c THEN cv
    ELSE [cv EXCEPT !.travel_time_open = open_time, !.travel_time_close = close_time,
                    !.position = 0]

\* the calibration flow sends SIGNAL_CALIBRATION_COMPLETED to every entity
CalibrationCompleted(device_id, open_time, close_time) ==
    /\ ops < MaxCoverOps
    /\ ops' = ops + 1
    /\ \E c \in CoverIds : cover[c].added
    /\ cover' = [c \in CoverIds |->
                    IF cover[c].added
                    THEN CalibratedOn(cover[c], c, device_id, open_time, close_time)
                    ELSE cover[c]]
    /\ last' = Did("calibration_completed", None, "none", device_id, <<>>, <<>>, {},
                   <<>>, FALSE)
    /\ UNCHANGED <<quietVars, pending_retry_command, registered_devices, now,
                   protocol>>

\* async_will_remove_from_hass (the subscriptions end with the entity)
WillRemoveFromHass(c) ==
    /\ ops < MaxCoverOps
    /\ ops' = ops + 1
    /\ cover[c].added
    /\ cover' = [cover EXCEPT ![c] = [StopTracking(cover[c]) EXCEPT
                                         !.added = FALSE, !.removed = TRUE]]
    /\ last' = Did("will_remove_from_hass", None, "none", c, <<>>, <<>>, {}, <<>>,
                   FALSE)
    /\ UNCHANGED <<quietVars, pending_retry_command, registered_devices, now,
                   protocol>>

\* ------------------------------------------------ cover: recompute loop

\* an iteration of the loop that never finds the target reached
TickOnWithoutTarget(cv, k, t) ==
    [cv |-> [UpdatePosition(cv, t) EXCEPT !.tasks[k] = "sleeping"], stop |-> FALSE,
     found |-> "moving"]

\* one iteration of _async_position_update_loop after its sleep, by task k:
\* the cover afterwards, whether control_blind(CMD_STOP) is called, and what
\* the iteration found
TickOn(cv, k, t) ==
    LET u == UpdatePosition(cv, t)
        target == u.target_position
        position_reached ==
            \/ u.is_opening /\ u.position # NoNumber /\ u.position >= target
            \/ u.is_closing /\ u.position # NoNumber /\ u.position <= target
        ended == [u EXCEPT !.position_update_task = None,
                           !.move_start_time = NoNumber,
                           !.move_start_position = NoNumber,
                           !.tasks[k] = "unused"]
    IN IF target # NoNumber /\ position_reached
       THEN [cv |-> [ended EXCEPT !.position = target,
                                  !.stops = IF target \notin {0, 100}
                                            THEN u.stops + 1 ELSE u.stops],
             stop |-> target \notin {0, 100},
             found |-> "target"]
       ELSE IF target = NoNumber /\ u.is_closing /\ u.position # NoNumber
               /\ u.position <= 0
       THEN [cv |-> [ended EXCEPT !.position = 0, !.is_opening = FALSE,
                                  !.is_closing = FALSE],
             stop |-> FALSE, found |-> "closed"]
       ELSE IF target = NoNumber /\ u.is_opening /\ u.position # NoNumber
               /\ u.position >= 100
       THEN [cv |-> [ended EXCEPT !.position = 100, !.is_opening = FALSE,
                                  !.is_closing = FALSE],
             stop |-> FALSE, found |-> "open"]
       ELSE [cv |-> [u EXCEPT !.tasks[k] = "sleeping"], stop |-> FALSE,
             found |-> "moving"]

\* the recompute task k of cover c wakes from asyncio.sleep(0.2)
PositionTick(c, k) ==
    /\ UNCHANGED ops
    /\ cover[c].tasks[k] = "due"
    /\ LET r == TickOn(cover[c], k, now)
       IN /\ cover' = [cover EXCEPT ![c] = r.cv]
          /\ IF r.stop
             THEN /\ pending_retry_command' =
                         RetryRecord(BlindCommand(cover[c].device_enum, CMD_STOP),
                                     transport, transports)
                  /\ last' = Did("position_tick", k, r.found, c, <<>>,
                                 Written(BlindCommand(cover[c].device_enum, CMD_STOP),
                                         transport, transports), {}, <<>>, FALSE)
             ELSE /\ UNCHANGED pending_retry_command
                  /\ last' = Did("position_tick", k, r.found, c, <<>>, <<>>, {}, <<>>,
                                 FALSE)
    /\ UNCHANGED <<quietVars, registered_devices, now,
                   protocol>>

\* the recompute task k of cover c gets CancelledError in its sleep
PositionCancelled(c, k) ==
    /\ UNCHANGED ops
    /\ cover[c].tasks[k] = "cancelled"
    /\ cover' = [cover EXCEPT ![c].tasks[k] = "unused",
                              ![c].position_update_task = None]
    /\ last' = Did("position_cancelled", k, "none", c, <<>>, <<>>, {}, <<>>, FALSE)
    /\ UNCHANGED <<quietVars, pending_retry_command, registered_devices, now,
                   protocol>>

\* 200 ms pass: every sleeping recompute task becomes due. The event loop runs
\* what is due (and delivers pending cancellations) before the next 200 ms pass.
AdvanceTime ==
    /\ UNCHANGED ops
    /\ now < MaxTime
    /\ \A c \in CoverIds : \A k \in PosTaskIds : cover[c].tasks[k] \notin {"due", "cancelled"}
    /\ now' = now + 1
    /\ cover' = [c \in CoverIds |->
                    [cover[c] EXCEPT !.tasks =
                        [k \in PosTaskIds |-> IF cover[c].tasks[k] = "sleeping"
                                              THEN "due" ELSE cover[c].tasks[k]]]]
    /\ last' = Did("advance_time", None, "none", <<>>, <<>>, <<>>, {}, <<>>, FALSE)
    /\ UNCHANGED <<quietVars, pending_retry_command, registered_devices, protocol>>

\* ------------------------------------------------ cover: specification

\* events the stick reports for a motor (the last one is no motor event)
CoverEvents == {EVENT_STOPPED, EVENT_STARTED_MOVING_UP, EVENT_STARTED_MOVING_DOWN,
                <<"1", "A">>}

\* a connected session (connect() has completed, the stored devices have been
\* registered) and one cover entity just constructed from its stored times
CoverInit ==
    /\ transport = 1
    /\ transports = [x \in TransportIds |-> IF x = 1 THEN "open" ELSE "unused"]
    /\ is_connecting = FALSE
    /\ is_connected = TRUE
    /\ device_version = <<"R", "F", "T", "U", "_", "V">>
    /\ device_mode = "listening"
    /\ hub_id = <<>>
    /\ verify_future = None
    /\ device_id_future = None
    /\ pairing_future = None
    /\ task = [t \in Tasks |-> IdleTask]
    /\ pending_retry_command = CMD_GET_DEVICE_ID
    /\ retry_task = None
    /\ retry_tasks = [k \in RetryIds |-> "unused"]
    /\ retry_for = [k \in RetryIds |-> <<>>]
    /\ stop_pairing_task = None
    /\ stop_tasks = [k \in StopIds |-> "unused"]
    /\ registered_devices = [d \in {DEV_A} |-> ENUM_10]
    /\ reconnect_timers = 0
    /\ last = Did("init", None, "void", <<>>, <<>>, <<>>, {}, <<>>, FALSE)
    /\ ops = 0
    /\ cover = [c \in CoverIds |->
                    IF c = DEV_A THEN NewCover(TRUE, ENUM_10, 4, 3) ELSE NoCover]
    /\ now = 0
    /\ protocol = NewProtocol

CoverNext ==
    \/ \E c \in CoverIds, r \in RestoreInputs : AddedToHass(c, r)
    \/ \E c \in CoverIds, e \in CoverEvents : CoverEvent(c, e)
    \/ \E c \in CoverIds : OpenCover(c)
    \/ \E c \in CoverIds : CloseCover(c)
    \/ \E c \in CoverIds : StopCover(c)
    \/ \E c \in CoverIds, target \in Targets : SetCoverPosition(c, target)
    \/ \E cal \in Calibrations : CalibrationCompleted(DEV_A, cal[1], cal[2])
    \/ \E c \in CoverIds : WillRemoveFromHass(c)
    \/ \E c \in CoverIds, k \in PosTaskIds : PositionTick(c, k)
    \/ \E c \in CoverIds, k \in PosTaskIds : PositionCancelled(c, k)
    \/ AdvanceTime

CoverSpec == CoverInit /\ [][CoverNext]_vars

\* ------------------------------------------------------------ claims

\* the tasks suspended awaiting a response of each class
VerifyWaiters ==
    {t \in Tasks : task[t].pc \in {"verify_wait", "conn_verify"} /\ task[t].fut = "pending"}
DeviceIdWaiters ==
    {t \in Tasks : task[t].pc \in {"id_wait", "conn_id"} /\ task[t].fut = "pending"}
PairingWaiters ==
    {t \in Tasks : task[t].pc = "pair_wait" /\ task[t].fut = "pending"}

\* C1: in every reachable state at most one caller awaits a response of each
\* request class (verification, device ID, pairing).
C1_OneWaitPerClass ==
    /\ Cardinality(VerifyWaiters) <= 1
    /\ Cardinality(DeviceIdWaiters) <= 1
    /\ Cardinality(PairingWaiters) <= 1

\* a call of one of the three request methods by task t that finds the slot of
\* its class holding a pending future leaves everything as it was and fails
Refused(op, ret, slot, t) ==
    (last'.op = op /\ last'.task = t /\ Pending(slot)) =>
        /\ last'.ret = ret
        /\ last'.wrote = <<>>
        /\ pending_retry_command' = pending_retry_command
        /\ task' = task
        /\ <<verify_future, device_id_future, pairing_future>>' =
               <<verify_future, device_id_future, pairing_future>>

C3_OneRetryTimer ==
    Cardinality({k \in RetryIds : retry_tasks[k] \in {"created", "sleeping"}}) <= 1

OpenTransports == {x \in TransportIds : transports[x] = "open"}
OpeningTasks == {t \in Tasks : task[t].pc = "conn_open"}

\* C4: at most one transport open is in progress, at most one open transport
\* exists, and none is being opened while an open transport exists: a connect()
\* that finds either returns without opening anything.
C4_SingleOpen ==
    /\ Cardinality(OpenTransports) + Cardinality(OpeningTasks) <= 1
    /\ is_connecting <=> OpeningTasks # {}
    /\ OpenTransports \subseteq {transport}

C4_Witness ==
    /\ last.op = "connect" /\ last.ret = "none"
    /\ OpeningTasks # {} /\ last.task \notin OpeningTasks

\* C5: one incoming line fulfils at most one pending request or emits at most
\* one device event, never both; a line that fulfils the pairing wait emits no
\* device event.
C5_OneFulfilmentPerLine ==
    last.op = "handle_message" =>
        /\ Cardinality(last.fulfilled) + Len(last.events) <= 1
        /\ "pairing" \in last.fulfilled => last.events = <<>>

C5_Witness ==
    /\ last.op = "handle_message" /\ last.fulfilled = {"pairing"}
    /\ last.id = DEV_A

\* a pair command: ss, two characters of enumerator, the pair code
IsPairCommand(cmd) == StartsWith(cmd, <<"s", "s">>) /\ Slice(cmd, 4, 6) = <<"6", "0">>

\* C6: pair_device_and_wait() writes the pair command only once a device ID has
\* fulfilled its wait, addressed to the enumerator allocated when the call
\* began, and then returns (that device ID, that enumerator); when the wait
\* times out it writes nothing and returns None.
C6_PairAfterFulfilment ==
    [][/\ \A t \in Tasks :
            (last'.op = "pair_device_returns" /\ last'.task = t) =>
                IF task[t].fut = "done"
                THEN /\ last'.ret = "pair"
                     /\ last'.id = task[t].res
                     /\ last'.enum = task[t].enum
                     /\ last'.wrote =
                            IF CanWrite(transport, transports)
                            THEN << <<"s", "s">> \o task[t].enum
                                      \o <<"6", "0", "0", "0", "0", "0", "0">> >>
                            ELSE <<>>
                ELSE last'.ret = "none" /\ last'.wrote = <<>>
       /\ \A t \in Tasks :
            (task[t].pc = "pair_wait" /\ task'[t].pc = "pair_wait") =>
                task'[t].enum = task[t].enum
       /\ \A t \in Tasks :
            (last'.op = "pair_device_and_wait" /\ last'.task = t /\ last'.ret = "void") =>
                task'[t].enum = NextDeviceEnum(registered_devices)
       /\ \A i \in 1..Len(last'.wrote) :
            IsPairCommand(last'.wrote[i]) =>
                last'.op \in {"pair_device_returns", "retry_fires"}]_vars

C6_Witness ==
    /\ last.op = "pair_device_returns" /\ last.ret = "pair"
    /\ last.wrote # <<>> /\ last.enum # NextDeviceEnum(registered_devices)

ActivePosTasks(c) == {k \in PosTaskIds : cover[c].tasks[k] \in {"sleeping", "due"}}

\* the operation that ran last stopped cover c
StoppedLast(c) ==
    /\ last.id = c
    /\ \/ last.op = "handle_event" /\ last.enum = EVENT_STOPPED
       \/ last.op \in {"stop_cover", "will_remove_from_hass"}

\* C7: after a stopped event, a stop command or the removal of the entity no
\* position-recompute task of that cover remains active.
C7_NoTaskAfterStop ==
    \A c \in CoverIds : StoppedLast(c) => ActivePosTasks(c) = {}

\* C8: handling a stopped event leaves the cover idle with start timestamp,
\* start position and target cleared, at the pending target when one was set
\* and otherwise at the position extrapolated from the elapsed time.
C8_StoppedFinalizes ==
    [][\A c \in CoverIds :
          (last'.op = "handle_event" /\ last'.id = c /\ last'.enum = EVENT_STOPPED) =>
              /\ ~cover'[c].is_opening /\ ~cover'[c].is_closing
              /\ cover'[c].move_start_time = NoNumber
              /\ cover'[c].move_start_position = NoNumber
              /\ cover'[c].target_position = NoNumber
              /\ cover'[c].position =
                     IF cover[c].target_position # NoNumber
                     THEN cover[c].target_position
                     ELSE UpdatePosition(cover[c], now).position]_vars

C8_Witness ==
    /\ last.op = "handle_event" /\ last.id = DEV_A /\ last.enum = EVENT_STOPPED
    /\ cover[DEV_A].position = 30

\* C9: when the recompute finds the target reached the position becomes the
\* target; for a target strictly between 0 and 100 one stop command is sent
\* for the move, and one only; for a target of 0 or 100 none is sent.
C9_StopSentOnce ==
    \A c \in CoverIds :
        /\ cover[c].stops <= 1
        /\ (last.op = "position_tick" /\ last.id = c /\ last.ret = "target") =>
               /\ cover[c].position = cover[c].target_position
               /\ cover[c].target_position \in {0, 100} => last.wrote = <<>>
               /\ cover[c].target_position \notin {0, 100} => Len(last.wrote) = 1

\* C10: once the entity has been added its estimated position is an integer
\* from 0 to 100.
C10_PositionInRange ==
    \A c \in CoverIds : cover[c].added => cover[c].position \in 0..100

C10_Witness ==
    /\ last.op = "position_tick" /\ cover[DEV_A].added
    /\ cover[DEV_A].position \in 1..99 /\ cover[DEV_A].is_closing

\* C11: a connection-lost event sets is_connected to false and fires the status
\* notification, and starts no reconnect: it schedules no timer and puts no
\* connect() in flight; a transport opens only in a connect() that was called,
\* and a reconnect timer is scheduled only by a failed open.
C11_LostDoesNotReconnect ==
    [][/\ last'.op = "connection_lost" =>
            /\ ~is_connected' /\ last'.notified
            /\ reconnect_timers' = reconnect_timers
            /\ is_connecting' = is_connecting
            /\ task' = task
            /\ transport' = transport
            /\ OpenTransports' \subseteq OpenTransports
       /\ OpenTransports' \ OpenTransports # {} =>
            /\ last'.op = "connect_opened"
            /\ task[last'.task].pc = "conn_open"
       /\ \A t \in Tasks :
            (task[t].pc # "conn_open" /\ task'[t].pc = "conn_open") =>
                last'.op \in {"connect", "reconnect"} /\ last'.task = t
       /\ reconnect_timers' > reconnect_timers => last'.op = "connect_failed"]_vars

C11_Witness ==
    /\ last.op = "connection_lost" /\ last.notified
    /\ device_mode = "listening" /\ hub_id # <<>>
    /\ ~is_connected /\ OpenTransports = {} /\ OpeningTasks = {}

\* C12: every step that changes the connected flag, the firmware version or
\* the device mode fires the status notification.
C12_ChangeIsNotified ==
    [][(\/ is_connected' # is_connected
        \/ device_version' # device_version
        \/ device_mode' # device_mode) => last'.notified]_vars

\* the operation that ran last completed a connect() whose verification succeeded
ConnectCompleted ==
    \/ last.op = "connect_returns"
    \/ last.op \in {"connect_verified", "connect_settled"} /\ last.ret = "none"

\* C13 as stated: whenever connect() completes after a successful verification
\* is_connected is true and device_mode is listening.
C13_CompletesConnected ==
    ConnectCompleted => is_connected /\ device_mode = "listening"

\* the order in which connect() passes its awaits
ConnectOrder ==
    {<<"conn_open", "conn_verify">>, <<"conn_verify", "conn_sleep">>,
     <<"conn_verify", "conn_id">>, <<"conn_sleep", "conn_id">>,
     <<"conn_open", "idle">>, <<"conn_verify", "idle">>, <<"conn_sleep", "idle">>,
     <<"conn_id", "idle">>}

ConnectPcs == {"conn_open", "conn_verify", "conn_sleep", "conn_id"}

ConnectOps ==
    {"connect_opened", "connect_verified", "connect_settled", "connect_returns"}

\* tasks inside connect() past its verification
VerifiedConnects(tk) == {t \in Tasks : tk[t].pc \in {"conn_sleep", "conn_id"}}

\* C13 (amended): connect() sets is_connected once the verification succeeded
\* and device_mode to listening before its device-ID query, and its completion
\* changes neither, whether or not the query succeeded; until then only a
\* connection-lost event or the failed verification of another connect() clears
\* is_connected and only a verification response changes device_mode. connect()
\* writes `!?` when the port has opened, the listening-mode command after the
\* verification and the device-ID query last, and passes these points in order.
C13_ConnectedUnlessDisturbed ==
    [][/\ (last'.op = "connect_verified") => is_connected' /\ last'.notified
       /\ (last'.op \in {"connect_verified", "connect_settled"}
           /\ (last'.ret = "none" \/ task'[last'.task].pc = "conn_id")) =>
              device_mode' = "listening"
       /\ (last'.op = "connect_returns") =>
              is_connected' = is_connected /\ device_mode' = device_mode
       /\ (VerifiedConnects(task) # {} /\ is_connected /\ ~is_connected') =>
              last'.op \in {"connection_lost", "connect_unverified"}
       /\ (VerifiedConnects(task) # {} /\ device_mode = "listening"
           /\ device_mode' # "listening") =>
              last'.op = "handle_message" /\ last'.notified
       /\ \A t \in Tasks :
            (task[t].pc \in ConnectPcs /\ task'[t].pc # task[t].pc) =>
                <<task[t].pc, task'[t].pc>> \in ConnectOrder
       /\ last'.op \in ConnectOps =>
            LET pc == task[last'.task].pc
                written == {last'.wrote[i] : i \in 1..Len(last'.wrote)}
            IN /\ CMD_VERIFY \in written => pc = "conn_open"
               /\ CMD_HELLO \in written => pc = "conn_verify"
               /\ CMD_GET_DEVICE_ID \in written => task'[last'.task].pc = "conn_id"
               /\ Len(last'.wrote) <= 1]_vars

C13_Witness ==
    /\ last.op = "connect_returns" /\ hub_id = <<>>
    /\ is_connected /\ device_mode = "listening"

\* C14: when the verification of connect() fails (its wait times out, or
\* verify_device() refuses), connect() closes the transport and drops its
\* reference, leaves is_connected false, writes neither the listening-mode
\* command nor the device-ID query, schedules no reconnect and ends.
C14_UnverifiedCloses ==
    [][(\/ last'.op = "connect_unverified"
        \/ last'.op = "connect_opened" /\ last'.ret = "none") =>
           /\ transport' = None
           /\ transport # None => transports'[transport] # "open"
           /\ OpenTransports' \subseteq OpenTransports
           /\ ~is_connected'
           /\ last'.wrote = <<>>
           /\ pending_retry_command' = pending_retry_command
           /\ task'[last'.task] = IdleTask
           /\ reconnect_timers' = reconnect_timers
           /\ last'.op = "connect_unverified" => task[last'.task].fut = "cancelled"]_vars

C14_Witness ==
    /\ last.op = "connect_unverified" /\ transport = None
    /\ \E x \in TransportIds : transports[x] = "closing"
    /\ pending_retry_command = CMD_VERIFY

PendingRetryTimers == {k \in RetryIds : retry_tasks[k] \in {"created", "sleeping"}}

\* C15: when disconnect() has returned no busy-retry timer is pending.
C15_NoRetryAfterDisconnect ==
    last.op = "disconnect" => PendingRetryTimers = {}

\* C16: the command a busy-retry retransmits is the last command that was sent
\* before the busy signal that scheduled it.
C16_RetriesTheBusyCommand ==
    [][(last'.op = "retry_fires" /\ last'.wrote # <<>>) =>
           last'.wrote = <<retry_for[last'.task]>>]_vars

\* C17: a busy signal that answers a retransmission schedules no further
\* retry: a retransmitted command is not retransmitted again.
C17_NoRetryOfARetry ==
    [][(last.op = "retry_fires" /\ last.wrote # <<>> /\ last'.op = "handle_message") =>
           PendingRetryTimers' \subseteq PendingRetryTimers]_vars

\* ------------------------------------------------ enumerator allocation

\* enumerators as a configuration entry may store them (<<>> is a missing one)
StoredEnums ==
    {<<>>, <<"0", "5">>, <<"1", "0">>, <<"a", "0">>, <<"F", "E">>, <<"F", "F">>,
     <<"1", "F", "F">>, <<"Z", "Z">>}

\* register_existing_devices(devices), the registry after the devices at
\* positions i.. of the list were stored
RECURSIVE RegisteredFrom(_, _, _)
RegisteredFrom(reg, devices, i) ==
    IF i > Len(devices) THEN reg
    ELSE LET device == devices[i]
             stored ==
                 IF device.id # <<>> /\ device.enum # <<>>
                 THEN [d \in DOMAIN reg \cup {device.id} |->
                          IF d = device.id THEN device.enum ELSE reg[d]]
                 ELSE reg
         IN RegisteredFrom(stored, devices, i + 1)

\* register_existing_devices(devices) at the setup of the integration
RegisterExistingDevices(devices) ==
    /\ last.op = "init"
    /\ registered_devices' = RegisteredFrom(registered_devices, devices, 1)
    /\ last' = Did("register_existing_devices", None, "none", <<>>, <<>>, <<>>, {},
                   <<>>, FALSE)
    /\ UNCHANGED <<connVars, verify_future, device_id_future, pairing_future, task,
                   pending_retry_command, retryVars, stopVars, coverVars, ops,
                   protocol>>

\* initialize_next_device_enum()
InitializeNextDeviceEnum ==
    /\ last.op \in {"init", "register_existing_devices"}
    /\ last' = Did("initialize_next_device_enum", None, "enum", <<>>,
                   NextDeviceEnum(registered_devices), <<>>, {}, <<>>, FALSE)
    /\ UNCHANGED <<connVars, verify_future, device_id_future, pairing_future, task,
                   pending_retry_command, retryVars, stopVars, registered_devices,
                   coverVars, ops,
                   protocol>>

EnumNext ==
    \/ \E a, d \in StoredEnums :
           RegisterExistingDevices(<<[id |-> DEV_A, enum |-> a],
                                     [id |-> DEV_D, enum |-> d]>>)
    \/ InitializeNextDeviceEnum

EnumSpec == Init /\ [][EnumNext]_vars

\* the registered enumerators that are hexadecimal numbers
ValidEnums == {ParseHex(registered_devices[d]) : d \in DOMAIN registered_devices} \ {-1}

MaxOf(S) == CHOOSE v \in S : \A w \in S : w <= v

\* the result is n written with two upper-case hexadecimal digits
IsHex2(e, n) ==
    /\ Len(e) = 2
    /\ \A i \in 1..2 : \E j \in 1..16 : HexDigits[j] = e[i]
    /\ ParseHex(e) = n

IsDeviceEventLine(m) == Len(m) >= 18 /\ SubSeq(m, 1, 2) = <<"s", "s">>

\* C19: a well-formed device-event line that does not fulfil the pairing wait
\* produces exactly one event, on the channel of the device ID in the line
\* (characters 4..9) with the command code of the line (characters 14..15),
\* whether or not that device ID is registered.
C19_EventForwarded ==
    [][\A m \in Lines :
          (IsDeviceEventLine(m) /\ HandleMessage(m) /\ "pairing" \notin last'.fulfilled) =>
              /\ last'.events = << <<SubSeq(m, 5, 10), SubSeq(m, 15, 16)>> >>
              /\ last'.fulfilled = {}]_vars

C19_Witness ==
    /\ last.op = "handle_message"
    /\ last.events = << <<DEV_D, EVENT_STOPPED>> >>
    /\ DEV_D \notin DOMAIN registered_devices
    /\ ~Pending(pairing_future)

(***************************************************************************)
(* SchellenbergProtocol.data_received: the serial line reader.  A byte is  *)
(* a one-character string; "x80" stands for a byte above 0x7F.             *)
(***************************************************************************)
Bytes == {"a", " ", "\n", "x80"}
AsciiBytes == {"a", " ", "\n"}
\* what str.strip() removes (of the bytes above; also \t \r \v \f 0x1C..0x1F)
Whitespace == {" ", "\n"}

\* bytes.decode("ascii", errors="ignore"): the bytes above 0x7F are dropped
RECURSIVE DecodeAscii(_)
DecodeAscii(data) ==
    IF data = <<>> THEN <<>>
    ELSE IF Head(data) \in AsciiBytes THEN <<Head(data)>> \o DecodeAscii(Tail(data))
         ELSE DecodeAscii(Tail(data))

\* str.lstrip() and str.rstrip()
RECURSIVE LStrip(_)
LStrip(s) == IF s # <<>> /\ Head(s) \in Whitespace THEN LStrip(Tail(s)) ELSE s
RECURSIVE RStrip(_)
RStrip(s) ==
    IF s # <<>> /\ s[Len(s)] \in Whitespace THEN RStrip(SubSeq(s, 1, Len(s) - 1)) ELSE s
\* str.strip()
Strip(s) == RStrip(LStrip(s))

\* `"\n" in self.buffer`
HasNewline(s) == \E i \in 1..Len(s) : s[i] = "\n"
\* where str.split("\n", 1) cuts
FirstNewline(s) == CHOOSE i \in 1..Len(s) : s[i] = "\n" /\ \A j \in 1..(i - 1) : s[j] # "\n"

\* a reader with `if` in the place of `while`: one line per call
DrainOnce(buffer, lines) ==
    IF HasNewline(buffer)
    THEN LET line == SubSeq(buffer, 1, FirstNewline(buffer) - 1)
             rest == SubSeq(buffer, FirstNewline(buffer) + 1, Len(buffer))
         IN [buffer |-> rest,
             lines |-> IF Strip(line) # <<>> THEN Append(lines, Strip(line)) ELSE lines]
    ELSE [buffer |-> buffer, lines |-> lines]

\* the while loop of data_received: the lines handed to message_callback in
\* this call, and the buffer left
RECURSIVE Drain(_, _)
Drain(buffer, lines) ==
    IF HasNewline(buffer)
    THEN LET line == SubSeq(buffer, 1, FirstNewline(buffer) - 1)
             rest == SubSeq(buffer, FirstNewline(buffer) + 1, Len(buffer))
         IN IF Strip(line) # <<>> THEN Drain(rest, Append(lines, Strip(line)))
            ELSE Drain(rest, lines)
    ELSE [buffer |-> buffer, lines |-> lines]

\* the chunks the serial transport may hand over
RECURSIVE Chunks(_)
Chunks(n) ==
    IF n = 0 THEN {<<>>}
    ELSE {<<b>> \o c : b \in Bytes, c \in Chunks(n - 1)}

\* SchellenbergProtocol.data_received(data), with a callback that records
DataReceived(data) ==
    /\ Len(protocol.received) + Len(data) <= MaxStream
    /\ LET d == Drain(protocol.buffer \o DecodeAscii(data), <<>>)
       IN protocol' = [buffer |-> d.buffer,
                       received |-> protocol.received \o data,
                       delivered |-> protocol.delivered \o d.lines]
    /\ last' = Did("data_received", None, "void", <<>>, <<>>, <<>>, {}, <<>>, FALSE)
    /\ UNCHANGED <<quietVars, pending_retry_command, registered_devices, ops, cover, now>>

ProtocolNext == \E n \in 1..MaxChunk : \E data \in Chunks(n) : DataReceived(data)

ProtocolSpec == Init /\ [][ProtocolNext]_vars

\* the text of a whole byte stream
StreamText == DecodeAscii(protocol.received)
\* the positions of the newlines in a text
Newlines(text) == {i \in 1..Len(text) : text[i] = "\n"}
\* the segment a newline terminates: from after the newline before it
SegmentBefore(text, i) ==
    LET earlier == {j \in Newlines(text) : j < i}
        start == IF earlier = {} THEN 1
                 ELSE (CHOOSE j \in earlier : \A k \in earlier : k <= j) + 1
    IN SubSeq(text, start, i - 1)
\* the trimmed non-empty newline-terminated segments among the first n
\* characters of a text, in order
RECURSIVE TerminatedLines(_, _)
TerminatedLines(text, n) ==
    IF n = 0 THEN <<>>
    ELSE IF text[n] = "\n" /\ Strip(SegmentBefore(text, n)) # <<>>
         THEN Append(TerminatedLines(text, n - 1), Strip(SegmentBefore(text, n)))
         ELSE TerminatedLines(text, n - 1)
\* what follows the last newline of a text
Unterminated(text) ==
    IF Newlines(text) = {} THEN text
    ELSE SubSeq(text, (CHOOSE j \in Newlines(text) : \A k \in Newlines(text) : k <= j) + 1,
                Len(text))

\* C20: however a byte stream is cut into chunks, the lines delivered to the
\* message callback are the newline-terminated segments of the whole stream,
\* trimmed, the empty ones dropped, in order and once each, and what follows
\* the last newline is in the buffer (the stream read as ASCII text: the code
\* decodes every chunk with errors="ignore").
C20_ChunkingInvariant ==
    /\ protocol.delivered = TerminatedLines(StreamText, Len(StreamText))
    /\ protocol.buffer = Unterminated(StreamText)

C20_Witness ==
    /\ last.op = "data_received"
    /\ protocol.received = <<"a", " ", "a", "\n", "a">>
    /\ protocol.delivered = << <<"a", " ", "a">> >>
    /\ protocol.buffer = <<"a">>

(***************************************************************************)
(* _handle_message on its own: a connected session with some requests      *)
(* awaiting their answers, and the lines the stick may send.               *)
(***************************************************************************)
\* the number of lines that arrive in a run
MaxLines == 2

\* the lines of the session model and lines at the limits of every rule
WireLines ==
    Lines \cup
    {<<"R", "F", "T", "U", "_", "V", "2", "0", " ", "F", ":", "2", "0", "1", "8",
       "0", "5", "1", "0", "_", "D", "F", "B", "D", " ", "B", ":", "1">>,
     <<"R", "F", "T", "U", "_", "V", " ", "B", ":", "0">>,
     <<"R", "F", "T", "U", "_", "V", " ", "B", ":", "2">>,
     <<"R", "F", "T", "U", "_", "V", " ", "F", ":", "2">>,
     <<"R", "F", "T", "U", "_", "V", " ", "B", ":">>,
     <<"R", "F", "T", "U", "_", "V", " ", " ", "B", ":", "0", " ", "B", ":", "1">>,
     <<"R", "F", "T", "U", "_", "V", " ", "X", "B", ":", "0">>,
     <<"R", "F", "T", "U", "_">>,
     <<"R", "F", "T", "U">>,
     <<"t", "0">>,
     <<"s", "r", "5", "D", "3", "E", "7">>,
     <<"s", "r", "5", "D", "3", "E", "7", "C", "F", "F">>,
     <<"s", "l", "0", "0", "B", "E", "D">>,
     <<"s", "l", "0", "0", "B", "E", "D", "E">>,
     <<"s", "l", "0", "0", "B", "E", "A", "B", "C", "1", "2", "3">>,
     <<"s", "s", "1", "0", "A", "B", "C", "1", "2", "3", "Z", "Z", "Z", "Z", "0",
       "1", "P", "P", "0", "0">>,
     <<"s", "s", "1", "1", "D", "E", "F", "4", "5", "6", "0", "0", "0", "1", "0",
       "2", "P", "P", "A", "5">>,
     <<"s", "s", "1", "0", "A", "B", "C", "1", "2", "3", "Z", "Z", "Z", "Z", "0",
       "1", "P">>,
     <<>>}

\* the waits a caller task may be suspended in when a line arrives
MessageWaits(reg) ==
    {IdleTask, Waiting("verify_wait", <<>>), Waiting("id_wait", <<>>),
     Waiting("pair_wait", NextDeviceEnum(reg))}

\* the slot of a request class: the task that waits in it, None when none does
SlotOf(tk, pc) ==
    IF \E t \in Tasks : tk[t].pc = pc THEN CHOOSE t \in Tasks : tk[t].pc = pc ELSE None

\* a connected session in listening mode; each caller task is idle or awaits
\* the answer to verify_device(), get_device_id() or pair_device_and_wait()
MessageInit ==
    /\ transport = 1
    /\ transports = [x \in TransportIds |-> IF x = 1 THEN "open" ELSE "unused"]
    /\ is_connecting = FALSE
    /\ is_connected = TRUE
    /\ device_version = <<"R", "F", "T", "U", "_", "V">>
    /\ device_mode = "listening"
    /\ hub_id = <<>>
    /\ registered_devices \in {<<>>, [d \in {DEV_A} |-> ENUM_10]}
    /\ task \in [Tasks -> MessageWaits(registered_devices)]
    /\ \A t, u \in Tasks : (t # u /\ task[t].pc = task[u].pc) => task[t].pc = "idle"
    /\ verify_future = SlotOf(task, "verify_wait")
    /\ device_id_future = SlotOf(task, "id_wait")
    /\ pairing_future = SlotOf(task, "pair_wait")
    /\ pending_retry_command = CMD_GET_DEVICE_ID
    /\ retry_task = None
    /\ retry_tasks = [k \in RetryIds |-> "unused"]
    /\ retry_for = [k \in RetryIds |-> <<>>]
    /\ stop_pairing_task = None
    /\ stop_tasks = [k \in StopIds |-> "unused"]
    /\ reconnect_timers = 0
    /\ last = Did("init", None, "void", <<>>, <<>>, <<>>, {}, <<>>, FALSE)
    /\ ops = MaxOps - MaxLines      \* the stimuli left are the lines
    /\ cover = [c \in CoverIds |-> NoCover]
    /\ now = 0
    /\ protocol = NewProtocol

MessageNext == \E m \in WireLines : HandleMessage(m)

MessageSpec == MessageInit /\ [][MessageNext]_vars

\* C21: every line that starts with ss and has at least 18 characters is
\* decoded with the device ID of its characters [4:10), and, when it is
\* forwarded, with the enumerator of its characters [2:4) and the command of
\* its characters [14:16); characters [10:14) and those from 16 on play no part.
C21_DeviceEventDecoded ==
    [][\A m \in WireLines :
          (Len(m) >= 18 /\ SubSeq(m, 1, 2) = <<"s", "s">> /\ HandleMessage(m)) =>
              /\ last'.id = SubSeq(m, 5, 10)
              /\ "pairing" \in last'.fulfilled =>
                     task'[pairing_future].res = SubSeq(m, 5, 10)
              /\ "pairing" \notin last'.fulfilled =>
                     /\ last'.enum = SubSeq(m, 3, 4)
                     /\ last'.events = << <<SubSeq(m, 5, 10), SubSeq(m, 15, 16)>> >>]_vars

C21_Witness ==
    /\ last.op = "handle_message"
    /\ last.enum = <<"1", "1">>
    /\ last.id = DEV_D
    /\ last.events = << <<DEV_D, <<"0", "2">>>> >>

\* the whitespace-separated tokens of a line that start with "B:"
BootTokens(m) == {i \in 1..Len(Split(m)) : StartsWith(Split(m)[i], <<"B", ":">>)}

\* the mode a verification response names
NamedMode(m) ==
    IF BootTokens(m) = {} THEN "initial"
    ELSE LET first == CHOOSE i \in BootTokens(m) : \A j \in BootTokens(m) : i <= j
             suffix == SubSeq(Split(m)[first], 3, Len(Split(m)[first]))
         IN CASE suffix = <<"0">> -> "bootloader"
              [] suffix = <<"1">> -> "initial"
              [] OTHER -> "unknown"

\* the characters of a line before its first blank
FirstToken(m) ==
    IF \E i \in 1..Len(m) : m[i] = " "
    THEN SubSeq(m, 1, (CHOOSE i \in 1..Len(m) :
                          m[i] = " " /\ \A j \in 1..(i - 1) : m[j] # " ") - 1)
    ELSE m

\* C22: every line that starts with RFTU_ sets the version to its first token
\* and the mode from its first token that starts with B: (0 bootloader, 1
\* initial, anything else unknown, no such token initial), completes a pending
\* verification request with success, and fires the status notification.
C22_VerificationDecoded ==
    [][\A m \in WireLines :
          (Len(m) >= 5 /\ SubSeq(m, 1, 5) = <<"R", "F", "T", "U", "_">>
           /\ HandleMessage(m)) =>
              /\ device_version' = FirstToken(m)
              /\ device_mode' = NamedMode(m)
              /\ last'.notified
              /\ Pending(verify_future) =>
                     /\ task'[verify_future].fut = "done"
                     /\ last'.fulfilled = {"verify"}
              /\ \A t \in Tasks : t # verify_future => task'[t] = task[t]]_vars

C22_Witness ==
    /\ last.op = "handle_message" /\ last.fulfilled = {"verify"}
    /\ device_version = <<"R", "F", "T", "U", "_", "V", "2", "0">>
    /\ device_mode = "initial"

\* a line no rule of the classifier takes
Unclassified(m) ==
    /\ ~(Len(m) >= 5 /\ SubSeq(m, 1, 5) = <<"R", "F", "T", "U", "_">>)
    /\ m \notin {<<"t", "1">>, <<"t", "0">>, <<"t", "E">>}
    /\ \A p \in {"r", "l"} : ~(Len(m) >= 8 /\ SubSeq(m, 1, 2) = <<"s", p>>)
    /\ ~(Len(m) >= 18 /\ SubSeq(m, 1, 2) = <<"s", "s">>)

\* C23: a line that matches no rule of the classifier, or that has the prefix
\* sr, sl or ss and is too short, fulfils no pending request, emits no event,
\* schedules no retry and changes no state of the session.
C23_UnclassifiedIgnored ==
    [][\A m \in WireLines :
          (Unclassified(m) /\ HandleMessage(m)) =>
              /\ last'.fulfilled = {} /\ last'.events = <<>> /\ ~last'.notified
              /\ last'.wrote = <<>>
              /\ UNCHANGED <<connVars, verify_future, device_id_future, pairing_future,
                             task, pending_retry_command, retryVars, stopVars,
                             registered_devices, cover>>]_vars

C23_Witness ==
    /\ last.op = "handle_message" /\ last.fulfilled = {} /\ last.events = <<>>
    /\ last.id = <<>> /\ ~last.notified
    /\ Pending(verify_future) /\ Pending(pairing_future)
    /\ PendingRetryTimers = {}
    /\ ops = MaxOps

(***************************************************************************)
(* The commands of the session: control_blind, the calibration and pairing *)
(* commands of a device, led_blink, and the pair command.                  *)
(***************************************************************************)
\* set_upper_endpoint, set_lower_endpoint, allow_pairing_on_device, manual_up
\* and manual_down: the command code each method sends (const.py)
DeviceCommands ==
    [set_upper_endpoint |-> <<"6", "1">>, set_lower_endpoint |-> <<"6", "2">>,
     allow_pairing_on_device |-> <<"4", "0">>, manual_up |-> <<"4", "1">>,
     manual_down |-> <<"4", "2">>]

\* one of these five methods: f"{CMD_TRANSMIT}{device_enum}9{code}0000" is
\* handed to send_command
SendDeviceCommand(method, device_enum) ==
    /\ ops < MaxOps
    /\ ops' = ops + 1
    /\ LET command == CMD_TRANSMIT \o device_enum \o <<"9">> \o DeviceCommands[method]
                          \o <<"0", "0", "0", "0">>
       IN /\ pending_retry_command' = RetryRecord(command, transport, transports)
          /\ last' = Did(method, None, "none", <<>>, device_enum,
                         Written(command, transport, transports), {}, <<>>, FALSE)
    /\ UNCHANGED <<connVars, verify_future, device_id_future, pairing_future, task,
                   retryVars, stopVars, registered_devices, coverVars, protocol>>

\* a table of blink commands that has an entry for 0
BlinkCommandsFromZero == [n \in 0..9 |-> <<"s", "o", HexDigits[n + 1]>>]

\* led_blink: the dictionary blink_commands (CMD_LED_BLINK_1 .. CMD_LED_BLINK_9)
BlinkCommands == [n \in 1..9 |-> <<"s", "o", HexDigits[n + 1]>>]

\* led_blink(count)
LedBlink(count) ==
    /\ ops < MaxOps
    /\ ops' = ops + 1
    /\ IF count \notin DOMAIN BlinkCommands
       THEN /\ last' = Did("led_blink", None, "none", <<>>, <<>>, <<>>, {}, <<>>, FALSE)
            /\ UNCHANGED pending_retry_command
       ELSE /\ pending_retry_command' =
                   RetryRecord(BlinkCommands[count], transport, transports)
            /\ last' = Did("led_blink", None, "none", <<>>, <<>>,
                           Written(BlinkCommands[count], transport, transports),
                           {}, <<>>, FALSE)
    /\ UNCHANGED <<connVars, verify_future, device_id_future, pairing_future, task,
                   retryVars, stopVars, registered_devices, coverVars, protocol>>

\* the blink counts a caller may pass
BlinkCounts == -1..10

\* the callers of the command methods, the pairing a device answers, and
\* disconnect()
CommandNext ==
    \/ \E e \in {ENUM_10, ENUM_FF}, a \in BlindActions \cup {CMD_DOWN} : ControlBlind(e, a)
    \/ \E e \in {ENUM_10, ENUM_FF}, method \in DOMAIN DeviceCommands :
           SendDeviceCommand(method, e)
    \/ \E count \in BlinkCounts : LedBlink(count)
    \/ \E t \in Tasks : PairDeviceAndWait(t)
    \/ HandleMessage(LINE_SL)
    \/ \E t \in Tasks : PairDeviceReturns(t)
    \/ Disconnect

CommandSpec == MessageInit /\ [][CommandNext]_vars

\* C24: every device-addressed command written (blind up, down and stop, the
\* endpoint, pairing-permission and manual commands, and the pair command) is
\* ss, a two-character enumerator, a literal 9, a two-character command code
\* and zeros, eleven characters in all.
C24_DeviceCommandForm ==
    \A i \in 1..Len(last.wrote) :
        StartsWith(last.wrote[i], <<"s", "s">>) =>
            /\ Len(last.wrote[i]) = 11
            /\ last.wrote[i][5] = "9"
            /\ SubSeq(last.wrote[i], 8, 11) = <<"0", "0", "0", "0">>

\* everything of the session but the record of the operation and the budget
SessionState ==
    <<connVars, verify_future, device_id_future, pairing_future, task,
      pending_retry_command, retryVars, stopVars, registered_devices, cover>>

\* C25: control_blind with an action other than stop, up and down, and
\* led_blink with a count outside 1..9, write nothing and leave the session as
\* it was, the record of the last command included; led_blink(n) with n in 1..9
\* writes so{n} to an open port.
C25_InvalidRejected ==
    [][/\ \A e \in {ENUM_10, ENUM_FF}, a \in BlindActions \cup {CMD_DOWN} :
            (a \notin {<<"0", "0">>, <<"0", "1">>, <<"0", "2">>} /\ ControlBlind(e, a)) =>
                last'.wrote = <<>> /\ UNCHANGED SessionState
       /\ \A count \in BlinkCounts :
            LedBlink(count) =>
                IF count \in 1..9
                THEN CanWrite(transport, transports) =>
                         /\ Len(last'.wrote) = 1
                         /\ SubSeq(last'.wrote[1], 1, 2) = <<"s", "o">>
                         /\ ParseHex(SubSeq(last'.wrote[1], 3, 3)) = count
                         /\ Len(last'.wrote[1]) = 3
                ELSE last'.wrote = <<>> /\ UNCHANGED SessionState]_vars

C25_Witness ==
    /\ last.op = "led_blink" /\ last.wrote = <<>>
    /\ CanWrite(transport, transports)
    /\ pending_retry_command = CMD_GET_DEVICE_ID

(***************************************************************************)
(* set_cover_position followed by the recompute loop alone.                *)
(***************************************************************************)
\* an entity that was added with a restored position and is at rest, on a
\* connected session; its travel times are within the horizon of the clock
SetPositionInit ==
    /\ transport = 1
    /\ transports = [x \in TransportIds |-> IF x = 1 THEN "open" ELSE "unused"]
    /\ is_connecting = FALSE
    /\ is_connected = TRUE
    /\ device_version = <<"R", "F", "T", "U", "_", "V">>
    /\ device_mode = "listening"
    /\ hub_id = <<>>
    /\ verify_future = None
    /\ device_id_future = None
    /\ pairing_future = None
    /\ task = [t \in Tasks |-> IdleTask]
    /\ pending_retry_command = CMD_GET_DEVICE_ID
    /\ retry_task = None
    /\ retry_tasks = [k \in RetryIds |-> "unused"]
    /\ retry_for = [k \in RetryIds |-> <<>>]
    /\ stop_pairing_task = None
    /\ stop_tasks = [k \in StopIds |-> "unused"]
    /\ registered_devices = [d \in {DEV_A} |-> ENUM_10]
    /\ reconnect_timers = 0
    /\ last = Did("added_to_hass", None, "none", DEV_A, <<>>, <<>>, {}, <<>>, FALSE)
    /\ ops = MaxCoverOps - 1        \* one service call is still to come
    /\ \E open_time, close_time \in {MaxTime - 1, MaxTime},
          position \in {Clamp(r) : r \in RawPositions} \cup Targets :
           cover = [c \in CoverIds |->
                       IF c = DEV_A
                       THEN [NewCover(TRUE, ENUM_10, open_time, close_time) EXCEPT
                                !.added = TRUE, !.position = position]
                       ELSE NoCover]
    /\ now = 0
    /\ protocol = NewProtocol

\* the 200 ms sleep of a recompute task elapses
SleepElapses ==
    /\ \E c \in CoverIds, k \in PosTaskIds : cover[c].tasks[k] = "sleeping"
    /\ AdvanceTime

SetPositionNext ==
    \/ \E target \in Targets : SetCoverPosition(DEV_A, target)
    \/ SleepElapses
    \/ \E k \in PosTaskIds : PositionTick(DEV_A, k)

\* the event loop lets time pass and runs the task that is due
SetPositionSpec ==
    /\ SetPositionInit /\ [][SetPositionNext]_vars
    /\ WF_vars(SleepElapses)
    /\ \A k \in PosTaskIds : WF_vars(PositionTick(DEV_A, k))

\* C26: set_cover_position(target) with a target other than the position sets
\* the target and commands the cover toward it (up when the target is higher,
\* down when lower); with the recompute ticks going on and nothing else
\* happening the position eventually equals the target, and for a target
\* strictly between 0 and 100 a stop command has then been sent.
C26_ReachesTarget ==
    /\ [][\A target \in Targets :
             (target # cover[DEV_A].position /\ SetCoverPosition(DEV_A, target)) =>
                 /\ cover'[DEV_A].target_position = target
                 /\ cover'[DEV_A].is_opening = (target > cover[DEV_A].position)
                 /\ cover'[DEV_A].is_closing = (target < cover[DEV_A].position)
                 /\ last'.wrote =
                        << <<"s", "s">> \o cover[DEV_A].device_enum \o <<"9">>
                              \o (IF target > cover[DEV_A].position
                                  THEN <<"0", "1">> ELSE <<"0", "2">>)
                              \o <<"0", "0", "0", "0">> >>]_vars
    /\ \A target \in Targets :
           (last.op = "set_cover_position" /\ last.wrote # <<>>
            /\ cover[DEV_A].target_position = target)
               ~> (/\ cover[DEV_A].position = target
                   /\ cover[DEV_A].position_update_task = None
                   /\ target \notin {0, 100} => cover[DEV_A].stops >= 1)

C26_Witness ==
    /\ last.op = "position_tick" /\ last.ret = "target"
    /\ cover[DEV_A].position = 30 /\ cover[DEV_A].is_closing
    /\ last.wrote = <<BlindCommand(ENUM_10, CMD_STOP)>>

\* C27: set_cover_position(target) with the target equal to the position the
\* cover is at sends no command and changes nothing of the cover: position,
\* direction, target, start time and position, and recompute task stay.
C27_SamePositionNoOp ==
    [][\A c \in CoverIds, target \in Targets :
          (target = cover[c].position /\ SetCoverPosition(c, target)) =>
              /\ cover' = cover
              /\ last'.wrote = <<>>
              /\ pending_retry_command' = pending_retry_command]_vars

C27_Witness ==
    /\ last.op = "set_cover_position" /\ last.wrote = <<>>
    /\ cover[DEV_A].position = 100 /\ cover[DEV_A].target_position = 100
    /\ cover[DEV_A].is_opening

(***************************************************************************)
(* Two cover entities and the calibration signal.                          *)
(***************************************************************************)
\* a connected session and two cover entities just constructed
CalibrationInit ==
    /\ transport = 1
    /\ transports = [x \in TransportIds |-> IF x = 1 THEN "open" ELSE "unused"]
    /\ is_connecting = FALSE
    /\ is_connected = TRUE
    /\ device_version = <<"R", "F", "T", "U", "_", "V">>
    /\ device_mode = "listening"
    /\ hub_id = <<>>
    /\ verify_future = None
    /\ device_id_future = None
    /\ pairing_future = None
    /\ task = [t \in Tasks |-> IdleTask]
    /\ pending_retry_command = CMD_GET_DEVICE_ID
    /\ retry_task = None
    /\ retry_tasks = [k \in RetryIds |-> "unused"]
    /\ retry_for = [k \in RetryIds |-> <<>>]
    /\ stop_pairing_task = None
    /\ stop_tasks = [k \in StopIds |-> "unused"]
    /\ registered_devices = [d \in CoverIds |-> IF d = DEV_A THEN ENUM_10 ELSE <<"1", "1">>]
    /\ reconnect_timers = 0
    /\ last = Did("init", None, "void", <<>>, <<>>, <<>>, {}, <<>>, FALSE)
    /\ ops = 0
    /\ cover = [c \in CoverIds |->
                    IF c = DEV_A THEN NewCover(TRUE, ENUM_10, 4, 3)
                    ELSE NewCover(TRUE, <<"1", "1">>, 2, 2)]
    /\ now = 0
    /\ protocol = NewProtocol

\* the entities are added and removed, and calibrations of either device end
CalibrationNext ==
    \/ \E c \in CoverIds, r \in RestoreInputs : AddedToHass(c, r)
    \/ \E d \in CoverIds, cal \in Calibrations : CalibrationCompleted(d, cal[1], cal[2])
    \/ \E c \in CoverIds : WillRemoveFromHass(c)

CalibrationSpec == CalibrationInit /\ [][CalibrationNext]_vars

\* C28: a calibration-completed signal changes exactly the cover entity whose
\* device ID it names: that cover takes the open and close travel times of the
\* signal and its position becomes 0; every other cover stays as it was.
C28_CalibrationOnlyItsCover ==
    [][\A d \in CoverIds, cal \in Calibrations :
          CalibrationCompleted(d, cal[1], cal[2]) =>
              \A c \in CoverIds :
                  IF c = d /\ cover[c].added
                  THEN cover'[c] = [cover[c] EXCEPT !.travel_time_open = cal[1],
                                                    !.travel_time_close = cal[2],
                                                    !.position = 0]
                  ELSE cover'[c] = cover[c]]_vars

C28_Witness ==
    /\ last.op = "calibration_completed" /\ last.id = DEV_A
    /\ cover[DEV_A].travel_time_open = 3 /\ cover[DEV_A].travel_time_close = 4
    /\ cover[DEV_A].position = 0
    /\ cover[DEV_D].added /\ cover[DEV_D].position = 40
    /\ cover[DEV_D].travel_time_open = 2 /\ cover[DEV_D].travel_time_close = 2

\* the operation that ran last recomputed the position of cover c, which was
\* moving, and did nothing else to it: a tick that went on, or a stop command
Recomputed(c) ==
    /\ last'.id = c
    /\ \/ last'.op = "position_tick" /\ last'.ret = "moving"
       \/ last'.op = "stop_cover"
    /\ cover[c].move_start_time # NoNumber /\ cover[c].move_start_position # NoNumber
    /\ cover[c].is_opening \/ cover[c].is_closing

\* the travel time of the direction cover c moves in
TravelTime(c) ==
    IF cover[c].is_opening THEN cover[c].travel_time_open ELSE cover[c].travel_time_close

\* C29 as stated: a recompute during a move sets the position to the start
\* position plus (opening) or minus (closing) the truncated value of
\* elapsed * 100 / travel time, clamped to 0..100.
C29_TruncatedChange ==
    [][\A c \in CoverIds :
          Recomputed(c) =>
              LET change == ((now - cover[c].move_start_time) * 100) \div TravelTime(c)
                  new_pos == IF cover[c].is_opening
                             THEN cover[c].move_start_position + change
                             ELSE cover[c].move_start_position - change
              IN cover'[c].position = IF new_pos < 0 THEN 0
                                      ELSE IF new_pos > 100 THEN 100 ELSE new_pos]_vars

\* C29 (amended): a recompute during a move sets the position to the value of
\* start position plus (opening) or minus (closing) elapsed * 100 / travel
\* time, truncated toward zero after the addition or subtraction and then
\* clamped to 0..100, with the open travel time when opening and the close
\* travel time when closing.
C29_TruncatedPosition ==
    [][\A c \in CoverIds :
          Recomputed(c) =>
              LET travel == TravelTime(c)
                  moved == (now - cover[c].move_start_time) * 100
                  \* new_pos * travel, exactly
                  scaled == IF cover[c].is_opening
                            THEN cover[c].move_start_position * travel + moved
                            ELSE cover[c].move_start_position * travel - moved
              IN \E q \in -500..500 :
                    /\ IF scaled >= 0
                       THEN q * travel <= scaled /\ scaled < (q + 1) * travel
                       ELSE (q - 1) * travel < scaled /\ scaled <= q * travel
                    /\ cover'[c].position = IF q < 0 THEN 0
                                            ELSE IF q > 100 THEN 100 ELSE q]_vars

C29_Witness ==
    /\ last.op = "position_tick" /\ last.ret = "moving" /\ last.id = DEV_A
    /\ cover[DEV_A].is_opening /\ cover[DEV_A].travel_time_open = 4
    /\ cover[DEV_A].move_start_position = 0 /\ now - cover[DEV_A].move_start_time = 2
    /\ cover[DEV_A].position = 50

(***************************************************************************)
(* connect() and its retries, with nobody calling disconnect().            *)
(***************************************************************************)
ReconnectNext ==
    \/ \E t \in Tasks : Connect(t)
    \/ \E t \in Tasks : ReconnectTimerFires(t)
    \/ \E t \in Tasks : OpenSucceeds(t)
    \/ \E t \in Tasks : OpenFails(t)
    \/ HandleMessage(LINE_RFTU_B1)
    \/ \E t \in Tasks : FutureTimeout(t)
    \/ \E t \in Tasks : ConnectVerified(t)
    \/ \E t \in Tasks : ConnectSettled(t)
    \/ \E t \in Tasks : ConnectReturns(t)
    \/ \E x \in TransportIds : ConnectionLost(x)

\* the event loop runs the 5-second timers and the port answers every open
\* (with success as long as it is not made to fail)
ReconnectSpec ==
    /\ Init /\ [][ReconnectNext]_vars
    /\ \A t \in Tasks : WF_vars(ReconnectTimerFires(t))
    /\ \A t \in Tasks : WF_vars(OpenSucceeds(t))

\* C30: a connect() whose open fails clears the connecting guard, schedules
\* one further attempt and leaves the rest of the connection as it was; the
\* attempts go on, so that the transport is eventually opened unless the port
\* goes on failing to the end of the run.
C30_RetriesUntilOpen ==
    /\ [][last'.op = "connect_failed" =>
             /\ is_connecting /\ ~is_connecting'
             /\ reconnect_timers' = reconnect_timers + 1
             /\ transport' = transport /\ transports' = transports
             /\ is_connected' = is_connected]_vars
    /\ (last.op = "connect_failed") ~> (OpenTransports # {} \/ ops = MaxOps)

C30_Witness ==
    /\ last.op = "reconnect" /\ last.ret = "void"
    /\ is_connecting /\ reconnect_timers = 0
    /\ task[last.task].pc = "conn_open"
    /\ OpenTransports = {}

(***************************************************************************)
(* The deferred stop of pairing mode.                                      *)
(***************************************************************************)
PendingStops(sts) == {k \in StopIds : sts[k] = "pending"}

\* C31: a message that fulfils a pairing wait schedules exactly one deferred
\* stop of pairing mode and writes nothing itself; the stop writes the one
\* command sp, after the caller of that pairing has resumed and written its
\* pair command; the caller gets its result while the stop is still deferred;
\* no other step, a timeout and the return after it included, schedules one.
C31_OneDeferredStop ==
    [][/\ (last'.op = "handle_message" /\ "pairing" \in last'.fulfilled) =>
            /\ \E k \in StopIds \ PendingStops(stop_tasks) :
                    PendingStops(stop_tasks') = PendingStops(stop_tasks) \cup {k}
            /\ last'.wrote = <<>>
       /\ (last'.op = "stop_pairing" /\ last' # last) =>
            /\ PendingStops(stop_tasks') = PendingStops(stop_tasks) \ {last'.task}
            /\ last'.task \in PendingStops(stop_tasks)
            /\ last'.wrote = IF CanWrite(transport, transports)
                             THEN << <<"s", "p">> >> ELSE <<>>
            /\ \A t \in Tasks : ~(task[t].pc = "pair_wait" /\ task[t].fut = "done")
       /\ (last'.op = "pair_device_returns" /\ last'.ret = "pair") =>
            PendingStops(stop_tasks) # {}
       /\ ~("pairing" \in last'.fulfilled /\ last'.op = "handle_message")
            /\ last'.op # "stop_pairing"
            => stop_tasks' = stop_tasks]_vars

C31_Witness ==
    /\ last.op = "pair_device_returns" /\ last.ret = "pair"
    /\ last.wrote = <<PairCommand(last.enum)>>
    /\ Cardinality(PendingStops(stop_tasks)) = 1
    /\ stop_pairing_task \in PendingStops(stop_tasks)

(***************************************************************************)
(* The limits of a move without a target.                                  *)
(***************************************************************************)
\* the position extrapolated from the start of the move is at or past the
\* limit of the direction of travel
AtLimit(cv, t) ==
    /\ cv.target_position = NoNumber
    /\ cv.move_start_time # NoNumber /\ cv.move_start_position # NoNumber
    /\ \/ /\ cv.is_closing /\ ~cv.is_opening
          /\ cv.move_start_position * cv.travel_time_close
                - (t - cv.move_start_time) * 100 <= 0
       \/ /\ cv.is_opening
          /\ cv.move_start_position * cv.travel_time_open
                + (t - cv.move_start_time) * 100 >= 100 * cv.travel_time_open

\* C32: when a recompute of a move without a target finds the extrapolated
\* position at 0 while closing or at 100 while opening, no recompute task of
\* the cover stays active, the position is exactly that limit, the cover is neither opening nor
\* closing, its start time and start position are cleared, and nothing is
\* written to the stick.
C32_LimitFinalizes ==
    [][\A c \in CoverIds :
        (last'.op = "position_tick" /\ last'.id = c /\ last' # last
            /\ AtLimit(cover[c], now)) =>
            /\ cover'[c].position = (IF cover[c].is_opening THEN 100 ELSE 0)
            /\ ~cover'[c].is_opening /\ ~cover'[c].is_closing
            /\ cover'[c].move_start_time = NoNumber
            /\ cover'[c].move_start_position = NoNumber
            /\ cover'[c].position_update_task = None
            /\ \A k \in PosTaskIds : cover'[c].tasks[k] \notin {"sleeping", "due"}
            /\ cover'[c].target_position = NoNumber
            /\ last'.wrote = <<>> /\ cover'[c].stops = cover[c].stops
            /\ pending_retry_command' = pending_retry_command]_vars

(***************************************************************************)
(* Commands dropped by send_command.                                       *)
(***************************************************************************)
\* C33: a step that finds no transport, or a closing one, writes nothing and
\* leaves the last-command record as it was; every step that writes leaves
\* the command it wrote last on record; so the retry after a busy signal
\* sends the command that was written last (when it can write at all).
C33_DroppedKeepsRecord ==
    [][(last' # last \/ ops' # ops) =>
        /\ (~CanWrite(transport, transports) /\ last'.op # "connect_opened") =>
                /\ last'.wrote = <<>>
                /\ pending_retry_command' = pending_retry_command
        /\ last'.wrote # <<>> =>
                pending_retry_command' = last'.wrote[Len(last'.wrote)]
        /\ last'.wrote = <<>> => pending_retry_command' = pending_retry_command
        /\ last'.op = "retry_fires" =>
                last'.wrote = IF CanWrite(transport, transports)
                                    /\ pending_retry_command # <<>>
                              THEN <<pending_retry_command>> ELSE <<>>]_vars

C33_Witness ==
    /\ last.op = "retry_fires" /\ last.wrote = <<>>
    /\ ~CanWrite(transport, transports)
    /\ transport # None /\ transports[transport] \in {"closing", "closed"}
    /\ pending_retry_command = CMD_GET_DEVICE_ID

(***************************************************************************)
(* The pending slots of the three request classes.                         *)
(***************************************************************************)
\* C34: a caller suspended on a pending verification, device-ID or pairing
\* wait is the one its class's slot refers to, so that a matching message
\* fulfils it; no return of another caller takes the slot away from it.
C34_SlotHoldsWaiter ==
    /\ \A t \in VerifyWaiters : verify_future = t
    /\ \A t \in DeviceIdWaiters : device_id_future = t
    /\ \A t \in PairingWaiters : pairing_future = t

(***************************************************************************)
(* The connected flag and the transport.                                   *)
(***************************************************************************)
\* C35: is_connected is true only while the session holds an open transport:
\* after a delivered connection-lost event or a completed disconnect() it is
\* false, whatever a connect() still in flight does afterwards.
C35_ConnectedHoldsTransport ==
    /\ is_connected => CanWrite(transport, transports)
    /\ last.op \in {"connection_lost", "disconnect"} => ~is_connected

(***************************************************************************)
(* The session after disconnect(), with no further call of connect().      *)
(***************************************************************************)
\* reconnect timers that may be pending when disconnect() is called
MaxTimers == 2

\* the states disconnect() leaves behind: the port was never opened, or the
\* verified connection has just been closed (connection_lost is still to
\* come); earlier failed opens have left their 5-second timers
UnloadInit ==
    /\ \E was_connected \in BOOLEAN :
        /\ transports = [x \in TransportIds |->
                            IF x = 1 /\ was_connected THEN "closing" ELSE "unused"]
        /\ is_connected = was_connected
        /\ device_version = (IF was_connected THEN Split(LINE_RFTU_B1)[1] ELSE <<>>)
        /\ device_mode = (IF was_connected THEN "listening" ELSE "None")
        /\ pending_retry_command = (IF was_connected THEN CMD_GET_DEVICE_ID ELSE <<>>)
    /\ transport = None
    /\ is_connecting = FALSE
    /\ hub_id = <<>>
    /\ verify_future = None
    /\ device_id_future = None
    /\ pairing_future = None
    /\ task = [t \in Tasks |-> IdleTask]
    /\ retry_task = None
    /\ retry_tasks = [k \in RetryIds |-> "unused"]
    /\ retry_for = [k \in RetryIds |-> <<>>]
    /\ stop_pairing_task = None
    /\ stop_tasks = [k \in StopIds |-> "unused"]
    /\ registered_devices = <<>>
    /\ reconnect_timers \in 0..MaxTimers
    /\ last = Did("disconnect", None, "none", <<>>, <<>>, <<>>, {}, <<>>, FALSE)
    /\ ops = 1      \* the call of disconnect() counts as one stimulus
    /\ cover = [c \in CoverIds |-> NoCover]
    /\ now = 0
    /\ protocol = NewProtocol

\* what runs without a call from a higher layer: timers, the outcomes of an
\* open, lines and timeouts, and the rest of a connect() the timer started
UnloadNext ==
    \/ \E t \in Tasks : ReconnectTimerFires(t)
    \/ \E t \in Tasks : OpenSucceeds(t)
    \/ \E t \in Tasks : OpenFails(t)
    \/ \E m \in {LINE_RFTU_B1, LINE_SR} : HandleMessage(m)
    \/ \E t \in Tasks : FutureTimeout(t)
    \/ \E t \in Tasks : ConnectVerified(t)
    \/ \E t \in Tasks : ConnectSettled(t)
    \/ \E t \in Tasks : ConnectReturns(t)
    \/ \E x \in TransportIds : ConnectionLost(x)

UnloadSpec == UnloadInit /\ [][UnloadNext]_vars

\* C36: after disconnect() no transport is opened as long as connect() is not
\* called again; a reconnect timer left by a failed open does not open one.
C36_NoReopenAfterDisconnect ==
    \A x \in TransportIds : transports[x] # "open"

(***************************************************************************)
(* The enumerator handed out and the registry.                             *)
(***************************************************************************)
\* C37: the enumerator initialize_next_device_enum() returns lies in
\* 0x10..0xFF and is the enumerator of no device registered at the call.
C37_FreshEnumInRange ==
    last.op = "initialize_next_device_enum" =>
        /\ ParseHex(last.enum) \in 16..255
        /\ \A d \in DOMAIN registered_devices :
                /\ registered_devices[d] # last.enum
                /\ ParseHex(registered_devices[d]) # ParseHex(last.enum)

(***************************************************************************)
(* The device ID a pairing returns.                                        *)
(***************************************************************************)
\* lines arrive while callers wait, and the pairing callers resume
PairingNext ==
    \/ MessageNext
    \/ \E t \in Tasks : PairDeviceReturns(t)
    \/ \E k \in StopIds : StopPairingFires(k)

PairingSpec == MessageInit /\ [][PairingNext]_vars

\* a line the sl rule accepts
IsPairingListLine(m) == Len(m) >= 8 /\ SubSeq(m, 1, 2) = <<"s", "l">>

\* C38 as stated: a device ID that fulfils the pairing wait, and so the one
\* pair_device_and_wait() returns, is not registered when its line is
\* dispatched, whether the line is an sl or an ss line.
C38_ReturnsUnregistered ==
    [][/\ \A m \in WireLines :
            (HandleMessage(m) /\ "pairing" \in last'.fulfilled) =>
                /\ IsPairingListLine(m) \/ IsDeviceEventLine(m)
                /\ task'[pairing_future].res \notin DOMAIN registered_devices
       /\ \A t \in Tasks :
            (last'.op = "pair_device_returns" /\ last'.task = t /\ last'.ret = "pair") =>
                last'.id = task[t].res]_vars

\* C38 (amended): pair_device_and_wait() returns the device ID that fulfilled
\* its wait; an ss line fulfils the wait only with a device ID (characters
\* [4:10)) that is not registered when the line is dispatched; an sl line
\* fulfils a pending wait with its characters [6:12) whether that device ID
\* is registered or not.
C38_EventsUnregisteredListsAny ==
    [][/\ \A m \in WireLines :
            /\ (HandleMessage(m) /\ "pairing" \in last'.fulfilled) =>
                /\ IsPairingListLine(m) \/ IsDeviceEventLine(m)
                /\ IsDeviceEventLine(m) =>
                        /\ task'[pairing_future].res = SubSeq(m, 5, 10)
                        /\ SubSeq(m, 5, 10) \notin DOMAIN registered_devices
                /\ IsPairingListLine(m) =>
                        task'[pairing_future].res = Slice(m, 6, 12)
            /\ (HandleMessage(m) /\ IsPairingListLine(m) /\ Pending(pairing_future)) =>
                "pairing" \in last'.fulfilled
       /\ \A t \in Tasks :
            (last'.op = "pair_device_returns" /\ last'.task = t /\ last'.ret = "pair") =>
                last'.id = task[t].res]_vars

C38_Witness ==
    /\ last.op = "pair_device_returns" /\ last.ret = "pair"
    /\ last.id = DEV_A /\ DEV_A \in DOMAIN registered_devices
    /\ last.wrote # <<>>

(***************************************************************************)
(* The length of the device IDs the dispatcher hands on.                   *)
(***************************************************************************)
\* C39: every device ID the dispatcher hands to a pending request or uses
\* as the key of an event has exactly 6 characters, for every sr, sl or ss
\* line its prefix and length rules accept.
C39_DeviceIdSixChars ==
    /\ \A t \in Tasks :
            (task[t].pc \in {"id_wait", "pair_wait"} /\ task[t].fut = "done") =>
                Len(task[t].res) = 6
    /\ \A i \in 1..Len(last.events) : Len(last.events[i][1]) = 6

(***************************************************************************)
(* The direction of the estimate.                                          *)
(***************************************************************************)
\* a cover that still has the travel times it was constructed with (no
\* calibration signal has reached it)
Uncalibrated(cv) == cv.travel_time_open = 4 /\ cv.travel_time_close = 3

\* C40: from one state to the next the estimated position of a cover that is
\* opening does not decrease and that of a cover that is closing does not
\* increase, whatever command, event or recompute makes the step.
C40_MonotoneWhileMoving ==
    [][\A c \in CoverIds :
          (cover[c].added /\ cover'[c].added /\ Uncalibrated(cover'[c])
             /\ cover[c].position # NoNumber /\ cover'[c].position # NoNumber) =>
              /\ (cover[c].is_opening /\ cover'[c].is_opening) =>
                    cover'[c].position >= cover[c].position
              /\ (cover[c].is_closing /\ cover'[c].is_closing) =>
                    cover'[c].position <= cover[c].position]_vars

====
